---- MODULE Spec2Model ----
(***************************************************************************)
(* Model of the pyqwest body bridge.                                       *)
(*                                                                         *)
(* Part 1: shared::response::ResponseBody (fill / chunk / close /          *)
(* try_close) driven by concurrent readers and closers on the tokio        *)
(* multi-threaded runtime, with the engine producing frames.               *)
(* Part 2: the sync-iterator request body (SyncRequest worker and          *)
(* body::IterStream) feeding a capacity-1 mpsc channel.                    *)
(***************************************************************************)
EXTENDS Integers, Sequences, FiniteSets, TLC

Readers == {"r1", "r2"}
Closers == {"c1", "c2"}

\* Bounds of the model.
MaxFrames == 2
MaxCalls == 2
MaxCloses == 2
MaxItems == 3
MaxSent == 11
MaxExec == 2
MaxTpCloses == 2

FrameKinds == {"data", "trailers", "other", "error"}

VARIABLES
    \* ---- ResponseBodyInner ----
    body,          \* body: Mutex<Option<reqwest::Body>> : "None" | "Some"
    body_lock,     \* holder of the body mutex across an await: "free" | "fill"
    trailers,      \* trailers store: 0 = absent, i = filled from frame i
    read_locked,   \* read_lock: Mutex<()> is held
    read_waiters,  \* FIFO queue of tasks waiting for read_lock
    cancel,        \* value of the watch channel cancel_tx
    rx_alive,      \* reader -> its cancel_rx exists
    rx_changed,    \* reader -> its cancel_rx has an unseen version
    \* ---- engine stream ----
    frames,        \* frames the engine has made available so far
    stream_end,    \* the engine has signalled end of stream
    pos,           \* number of frames pulled from the stream handle
    \* ---- tasks ----
    fill_pc,       \* transport task: "execute" | "fill" | "store" | "done" | "failed"
                   \* | "custom" (host-built response, no transport task)
    pc,            \* reader / closer position
    held,          \* reader -> its local `body` owns the stream handle
    res,           \* reader -> result of the call in progress
    ncalls,        \* reader -> chunk() calls started
    ncloses,       \* Response.close() calls started
    \* ---- observation ----
    log,           \* results returned, in the order the calls released read_lock
    closeCalled,   \* ResponseBody::close has executed its first statement
    closeReturned, \* some close() / successful try_close() has returned
    afterClose,    \* reader -> its current call started after closeCalled
    closedDuring,  \* reader -> close() was called while this call held read_lock
    slot,          \* reader -> results its chunk() task has sent back and the
                   \* host has not taken yet (the one-shot of __next__, the
                   \* future of __anext__)
    synclog,       \* what the __next__ calls of the sync reader gave the host
    \* ---- sync-iterator request body ----
    adapter,       \* "SyncRequest" (sync/request.rs) | "IterStream" (body.rs)
                   \* | "Sender" (asyncio/stream.rs)
    script,        \* what the host iterator does on its successive pulls
    iter_pos,      \* number of times the host iterator has been pulled
    wk_pc,         \* producer: "unspawned" | "pull" | "send" | "reserve" | "done"
                   \* | "reserve_closed" (send pending, Sender closed)
    wk_item,       \* result the worker is about to send
    chan,          \* buffer of the mpsc channel
    rx_closed,     \* the receiving half has been dropped by the engine
    received,      \* items the engine has taken from the request-body stream
    recv_end,      \* the stream has yielded end-of-stream to the engine
    \* ---- caller, interpreter and threads ----
    entry,         \* "HttpTransport" | "SyncHttpTransport" | "SyncClient"
    call_pc,       \* "async" (awaiting host task) | sync caller thread:
                   \* "start" | "spawned" | "blocked" | "returned"
    gil,           \* holder of the interpreter: "free" | "caller" | "worker"
    oneshot,       \* one-shot completion signal: "empty" | "ok" | exception
                   \* class sent | "dropped" (sender gone, nothing sent)
    exc,           \* exception class raised to the caller, "none" if none
    err,           \* reqwest error of the request: "none" | <<is_timeout, is_connect>>
    nexec,         \* producers created for this request's host iterator
    wk_thread,     \* kind of thread the current producer runs on
    pullers,       \* <<producer, thread kind>> pairs that called next() on the iterator
    iter_handle,   \* request_iter: Arc<Mutex<Option<Py<PyAny>>>> of the call:
                   \* "None" | "Some"
    iter_closes,   \* times the call has closed the request's host iterator
    \* ---- transport object and its instrumentation ----
    tp_mode,       \* "sync" (SyncHttpTransport) | "async" (HttpTransport)
    tp_close,      \* the transport's `close` field
    tp_client,     \* client: ArcSwapOption<reqwest::Client> : "Some" | "None"
    tp_closes,     \* close() / aclose() / __exit__ / __aexit__ calls so far
    active,        \* value of the http.client.active_requests up-down counter
    ops,           \* execute call -> its position, what it owns and its outcome
    content        \* Content of the response being closed: "Http" | "Custom"

reqVars == <<adapter, script, iter_pos, wk_pc, wk_item, chan, rx_closed,
             received, recv_end>>

reqVarsButPc == <<adapter, script, iter_pos, wk_item, chan, rx_closed,
                  received, recv_end>>

respVars == <<body, body_lock, trailers, read_locked, read_waiters, cancel,
              rx_alive, rx_changed, frames, stream_end, pos, fill_pc, pc,
              held, res, ncalls, ncloses, log, closeCalled, closeReturned,
              afterClose, closedDuring, slot, synclog>>

callVars == <<entry, call_pc, gil, oneshot, exc, err, nexec, wk_thread,
              pullers>>

iterVars == <<iter_handle, iter_closes>>

tpVars == <<tp_mode, tp_close, tp_client, tp_closes, active, ops, content>>

vars == <<respVars, reqVars, callVars, iterVars, tpVars>>

Procs == Readers \cup Closers

\* Result values of chunk(): Ok(None), Err(..) and Ok(Some(frame i)).
Ended == 0
Failed == -1

\* Positions at which a task owns read_lock.
ReaderCS == {"subscribe", "check", "take", "select", "restore", "release"}
CloserCS == {"t_body", "c_clear"}
InCS(p) == pc[p] \in (ReaderCS \cup CloserCS)

\* Positions of chunk() between acquiring read_lock and obtaining a result.
ReaderBusy == {"subscribe", "check", "take", "select"}

ReceiverCount == Cardinality({r \in Readers : rx_alive[r]})

\* Headers::empty(): a header collection whose store is still absent.
HeadersEmpty == 0

\* Headers::fill(map): the store now holds the metadata of frame i.
HeadersFill(i) == i

\* Headers::with_store: fails with "Trailers not received yet" on an absent store.
WithStoreOk(h) == h # HeadersEmpty

\* watch::Sender::send: rejected (value untouched) when no receiver exists.
WatchSend(old) == IF ReceiverCount = 0 THEN old ELSE TRUE

NotifyReceivers ==
    IF ReceiverCount = 0
    THEN rx_changed
    ELSE [r \in Readers |-> IF rx_alive[r] THEN TRUE ELSE rx_changed[r]]

\* tokio::sync::Mutex::lock on read_lock by task p; on success p moves to `next`.
LockRead(p, next, wait) ==
    IF ~read_locked /\ read_waiters = <<>>
    THEN /\ read_locked' = TRUE
         /\ read_waiters' = read_waiters
         /\ pc' = [pc EXCEPT ![p] = next]
    ELSE /\ read_locked' = read_locked
         /\ read_waiters' = Append(read_waiters, p)
         /\ pc' = [pc EXCEPT ![p] = wait]

\* Position a queued task resumes at once it is handed read_lock.
Resume(p) == IF p \in Readers THEN "subscribe" ELSE "c_clear"

\* Dropping the read guard held by p: hand the lock to the first waiter.
UnlockRead(p, next) ==
    IF read_waiters = <<>>
    THEN /\ read_locked' = FALSE
         /\ read_waiters' = read_waiters
         /\ pc' = [pc EXCEPT ![p] = next]
    ELSE /\ read_locked' = TRUE
         /\ read_waiters' = Tail(read_waiters)
         /\ pc' = [pc EXCEPT ![p] = next,
                             ![Head(read_waiters)] = Resume(Head(read_waiters))]

\* The engine stream yields nothing after an error frame.
StreamFailed == IF frames = <<>> THEN FALSE ELSE frames[Len(frames)] = "error"

\* A trailers frame is the last frame of a body.
TrailersSent == IF frames = <<>> THEN FALSE ELSE frames[Len(frames)] = "trailers"

\* Some reader is suspended in body.frame() with nothing buffered.
FrameAwaited ==
    \E r \in Readers : pc[r] = "select" /\ held[r] /\ pos = Len(frames)

\* chunk() calls started so far, over all readers.
TotalCalls == ncalls["r1"] + ncalls["r2"]

----------------------------------------------------------------------------
\* Transport task: client.execute(..) then response.fill(res) then hand over.

\* pyerrors::from_reqwest: timeout first, then connect, else runtime error.
FromReqwest(is_timeout, is_connect) ==
    IF is_timeout THEN "TimeoutError"
    ELSE IF is_connect THEN "ConnectionError"
    ELSE "RuntimeError"

\* The exception an entry point makes of a reqwest error: the transports go
\* through from_reqwest, SyncClient::execute builds a PyRuntimeError itself.
ErrorOf(e, is_timeout, is_connect) ==
    IF e = "SyncClient" THEN "RuntimeError"
    ELSE FromReqwest(is_timeout, is_connect)

\* The engine task has been spawned and is running.
Dispatched == call_pc # "start"

\* client.execute(..) resolved with a response. The transports go on to
\* response.fill; SyncClient::execute sends the response on the one-shot.
ExecuteOk ==
    /\ fill_pc = "execute"
    /\ Dispatched
    /\ IF entry = "SyncClient"
       THEN /\ fill_pc' = "done"
            /\ body' = "Some"
            /\ oneshot' = "ok"
       ELSE /\ fill_pc' = "fill"
            /\ UNCHANGED <<body, oneshot>>
    /\ UNCHANGED <<slot, synclog>>
    /\ UNCHANGED reqVars
    /\ UNCHANGED <<entry, call_pc, gil, exc, err, nexec, wk_thread, pullers>>
    /\ UNCHANGED <<body_lock, trailers, read_locked, read_waiters, cancel,
                   rx_alive, rx_changed, frames, stream_end, pos, pc, held, res,
                   ncalls, ncloses, log, closeCalled, closeReturned, afterClose,
                   closedDuring>>
    /\ UNCHANGED iterVars
    /\ UNCHANGED tpVars

\* client.execute(..) failed with a reqwest error: the request and its body
\* stream are dropped and the error goes to the caller, through the future
\* (asyncio) or through the one-shot (sync).
ExecuteErr(is_timeout, is_connect) ==
    /\ fill_pc = "execute"
    /\ Dispatched
    /\ fill_pc' = "failed"
    /\ err' = <<is_timeout, is_connect>>
    /\ LET cls == ErrorOf(entry, is_timeout, is_connect)
       IN IF call_pc = "none"
          THEN exc' = cls /\ UNCHANGED oneshot
          ELSE oneshot' = cls /\ UNCHANGED exc
    /\ rx_closed' = TRUE
    /\ chan' = <<>>
    /\ UNCHANGED <<slot, synclog>>
    /\ UNCHANGED <<adapter, script, iter_pos, wk_pc, wk_item, received, recv_end>>
    /\ UNCHANGED <<entry, call_pc, gil, nexec, wk_thread, pullers>>
    /\ UNCHANGED <<body, body_lock, trailers, read_locked, read_waiters, cancel,
                   rx_alive, rx_changed, frames, stream_end, pos, pc, held, res,
                   ncalls, ncloses, log, closeCalled, closeReturned, afterClose,
                   closedDuring>>
    /\ UNCHANGED iterVars
    /\ UNCHANGED tpVars

\* ResponseBody::fill, line 96: self.inner.body.lock().await
FillLock ==
    /\ fill_pc = "fill"
    /\ body_lock = "free"
    /\ body_lock' = "fill"
    /\ fill_pc' = "store"
    /\ UNCHANGED <<slot, synclog>>
    /\ UNCHANGED reqVars
    /\ UNCHANGED callVars
    /\ UNCHANGED <<body, trailers, read_locked, read_waiters, cancel,
                   rx_alive, rx_changed, frames, stream_end, pos, pc, held, res,
                   ncalls, ncloses, log, closeCalled, closeReturned, afterClose,
                   closedDuring>>
    /\ UNCHANGED iterVars
    /\ UNCHANGED tpVars

\* Mutant: the response is handed over without the handle being stored.
FillStore_NoStore ==
    /\ fill_pc = "store"
    /\ body_lock' = "free"
    /\ fill_pc' = "done"
    /\ oneshot' = IF call_pc = "none" THEN oneshot ELSE "ok"
    /\ UNCHANGED <<slot, synclog>>
    /\ UNCHANGED reqVars
    /\ UNCHANGED <<entry, call_pc, gil, exc, err, nexec, wk_thread, pullers>>
    /\ UNCHANGED <<body, trailers, read_locked, read_waiters, cancel,
                   rx_alive, rx_changed, frames, stream_end, pos, pc, held, res,
                   ncalls, ncloses, log, closeCalled, closeReturned, afterClose,
                   closedDuring>>
    /\ UNCHANGED iterVars
    /\ UNCHANGED tpVars

\* ResponseBody::fill, line 97, then the response is handed to the host.
FillStore ==
    /\ fill_pc = "store"
    /\ body' = "Some"
    /\ body_lock' = "free"
    /\ fill_pc' = "done"
    /\ oneshot' = IF call_pc = "none" THEN oneshot ELSE "ok"
    /\ UNCHANGED <<slot, synclog>>
    /\ UNCHANGED reqVars
    /\ UNCHANGED <<entry, call_pc, gil, exc, err, nexec, wk_thread, pullers>>
    /\ UNCHANGED <<trailers, read_locked, read_waiters, cancel,
                   rx_alive, rx_changed, frames, stream_end, pos, pc, held, res,
                   ncalls, ncloses, log, closeCalled, closeReturned, afterClose,
                   closedDuring>>
    /\ UNCHANGED iterVars
    /\ UNCHANGED tpVars

Delivered == fill_pc = "done"

----------------------------------------------------------------------------
\* Engine: makes the next frame (or the end of the stream) available.

EngineFrame(k) ==
    /\ FrameAwaited
    /\ ~stream_end
    /\ Len(frames) < MaxFrames
    /\ ~StreamFailed
    /\ ~TrailersSent
    /\ frames' = Append(frames, k)
    /\ UNCHANGED <<slot, synclog>>
    /\ UNCHANGED reqVars
    /\ UNCHANGED callVars
    /\ UNCHANGED <<body, body_lock, trailers, read_locked, read_waiters, cancel,
                   rx_alive, rx_changed, stream_end, pos, fill_pc, pc, held, res,
                   ncalls, ncloses, log, closeCalled, closeReturned, afterClose,
                   closedDuring>>
    /\ UNCHANGED iterVars
    /\ UNCHANGED tpVars

EngineEnd ==
    /\ FrameAwaited
    /\ ~stream_end
    /\ ~StreamFailed
    /\ stream_end' = TRUE
    /\ UNCHANGED <<slot, synclog>>
    /\ UNCHANGED reqVars
    /\ UNCHANGED callVars
    /\ UNCHANGED <<body, body_lock, trailers, read_locked, read_waiters, cancel,
                   rx_alive, rx_changed, frames, pos, fill_pc, pc, held, res,
                   ncalls, ncloses, log, closeCalled, closeReturned, afterClose,
                   closedDuring>>
    /\ UNCHANGED iterVars
    /\ UNCHANGED tpVars

----------------------------------------------------------------------------
\* ResponseBody::chunk

\* Mutant: chunk() enters without waiting for read_lock.
ChunkLock_NoWait(r) ==
    /\ Delivered
    /\ pc[r] = "idle"
    /\ TotalCalls < MaxCalls
    /\ read_locked' = TRUE
    /\ pc' = [pc EXCEPT ![r] = "subscribe"]
    /\ ncalls' = [ncalls EXCEPT ![r] = @ + 1]
    /\ afterClose' = [afterClose EXCEPT ![r] = closeCalled]
    /\ UNCHANGED <<slot, synclog>>
    /\ UNCHANGED reqVars
    /\ UNCHANGED callVars
    /\ UNCHANGED <<body, body_lock, trailers, cancel, rx_alive, rx_changed,
                   frames, stream_end, pos, fill_pc, held, res, ncloses, log,
                   closeCalled, closeReturned, closedDuring, read_waiters>>
    /\ UNCHANGED iterVars
    /\ UNCHANGED tpVars

\* Line 101: the call starts and asks for read_lock.
ChunkLock(r) ==
    /\ Delivered
    /\ pc[r] = "idle"
    /\ TotalCalls < MaxCalls
    /\ LockRead(r, "subscribe", "lock_wait")
    /\ ncalls' = [ncalls EXCEPT ![r] = @ + 1]
    /\ afterClose' = [afterClose EXCEPT ![r] = closeCalled]
    /\ UNCHANGED <<slot, synclog>>
    /\ UNCHANGED reqVars
    /\ UNCHANGED callVars
    /\ UNCHANGED <<body, body_lock, trailers, cancel, rx_alive, rx_changed,
                   frames, stream_end, pos, fill_pc, held, res, ncloses, log,
                   closeCalled, closeReturned, closedDuring>>
    /\ UNCHANGED iterVars
    /\ UNCHANGED tpVars

\* Line 101 on a body that is still Pending: ResponseBody is Clone and
\* pub(crate), chunk() takes no notice of whether fill() has run.
ChunkLockPending(r) ==
    /\ fill_pc \in {"execute", "fill", "store"}
    /\ pc[r] = "idle"
    /\ TotalCalls < MaxCalls
    /\ LockRead(r, "subscribe", "lock_wait")
    /\ ncalls' = [ncalls EXCEPT ![r] = @ + 1]
    /\ afterClose' = [afterClose EXCEPT ![r] = closeCalled]
    /\ UNCHANGED <<slot, synclog>>
    /\ UNCHANGED reqVars
    /\ UNCHANGED callVars
    /\ UNCHANGED <<body, body_lock, trailers, cancel, rx_alive, rx_changed,
                   frames, stream_end, pos, fill_pc, held, res, ncloses, log,
                   closeCalled, closeReturned, closedDuring>>
    /\ UNCHANGED iterVars
    /\ UNCHANGED tpVars

\* Line 102: cancel_tx.subscribe(); the new receiver has seen the current version.
ChunkSubscribe(r) ==
    /\ pc[r] = "subscribe"
    /\ rx_alive' = [rx_alive EXCEPT ![r] = TRUE]
    /\ rx_changed' = [rx_changed EXCEPT ![r] = FALSE]
    /\ pc' = [pc EXCEPT ![r] = "check"]
    /\ UNCHANGED <<slot, synclog>>
    /\ UNCHANGED reqVars
    /\ UNCHANGED callVars
    /\ UNCHANGED <<body, body_lock, trailers, read_locked, read_waiters, cancel,
                   frames, stream_end, pos, fill_pc, held, res, ncalls, ncloses,
                   log, closeCalled, closeReturned, afterClose, closedDuring>>
    /\ UNCHANGED iterVars
    /\ UNCHANGED tpVars

\* Mutant: a cancelled read still takes the handle out of the slot and drops it.
ChunkCheck_DropsHandle(r) ==
    /\ pc[r] = "check"
    /\ IF cancel
       THEN /\ pc' = [pc EXCEPT ![r] = "release"]
            /\ res' = [res EXCEPT ![r] = Ended]
            /\ rx_alive' = [rx_alive EXCEPT ![r] = FALSE]
            /\ body' = "None"
       ELSE /\ pc' = [pc EXCEPT ![r] = "take"]
            /\ UNCHANGED <<res, rx_alive, body>>
    /\ UNCHANGED <<slot, synclog>>
    /\ UNCHANGED reqVars
    /\ UNCHANGED callVars
    /\ UNCHANGED <<body_lock, trailers, read_locked, read_waiters, cancel,
                   rx_changed, frames, stream_end, pos, fill_pc, held, ncalls,
                   ncloses, log, closeCalled, closeReturned, afterClose,
                   closedDuring>>
    /\ UNCHANGED iterVars
    /\ UNCHANGED tpVars

\* Lines 103-105: if *cancel_rx.borrow() { return Ok(None) }
ChunkCheck(r) ==
    /\ pc[r] = "check"
    /\ IF cancel
       THEN /\ pc' = [pc EXCEPT ![r] = "release"]
            /\ res' = [res EXCEPT ![r] = Ended]
            /\ rx_alive' = [rx_alive EXCEPT ![r] = FALSE]
       ELSE /\ pc' = [pc EXCEPT ![r] = "take"]
            /\ UNCHANGED <<res, rx_alive>>
    /\ UNCHANGED <<slot, synclog>>
    /\ UNCHANGED reqVars
    /\ UNCHANGED callVars
    /\ UNCHANGED <<body, body_lock, trailers, read_locked, read_waiters, cancel,
                   rx_changed, frames, stream_end, pos, fill_pc, held, ncalls,
                   ncloses, log, closeCalled, closeReturned, afterClose,
                   closedDuring>>
    /\ UNCHANGED iterVars
    /\ UNCHANGED tpVars

\* Mutant: a read that finds the slot empty fails instead of ending.
ChunkTake_EmptyFails(r) ==
    /\ pc[r] = "take"
    /\ body_lock = "free"
    /\ IF body = "Some"
       THEN /\ body' = "None"
            /\ held' = [held EXCEPT ![r] = TRUE]
            /\ pc' = [pc EXCEPT ![r] = "select"]
            /\ UNCHANGED <<res, rx_alive>>
       ELSE /\ pc' = [pc EXCEPT ![r] = "release"]
            /\ res' = [res EXCEPT ![r] = Failed]
            /\ rx_alive' = [rx_alive EXCEPT ![r] = FALSE]
            /\ UNCHANGED <<body, held>>
    /\ UNCHANGED <<slot, synclog>>
    /\ UNCHANGED reqVars
    /\ UNCHANGED callVars
    /\ UNCHANGED <<body_lock, trailers, read_locked, read_waiters, cancel,
                   rx_changed, frames, stream_end, pos, fill_pc, ncalls,
                   ncloses, log, closeCalled, closeReturned, afterClose,
                   closedDuring>>
    /\ UNCHANGED iterVars
    /\ UNCHANGED tpVars

\* Lines 106-111: take the handle out of the slot, or return Ok(None).
ChunkTake(r) ==
    /\ pc[r] = "take"
    /\ body_lock = "free"
    /\ IF body = "Some"
       THEN /\ body' = "None"
            /\ held' = [held EXCEPT ![r] = TRUE]
            /\ pc' = [pc EXCEPT ![r] = "select"]
            /\ UNCHANGED <<res, rx_alive>>
       ELSE /\ pc' = [pc EXCEPT ![r] = "release"]
            /\ res' = [res EXCEPT ![r] = Ended]
            /\ rx_alive' = [rx_alive EXCEPT ![r] = FALSE]
            /\ UNCHANGED <<body, held>>
    /\ UNCHANGED <<slot, synclog>>
    /\ UNCHANGED reqVars
    /\ UNCHANGED callVars
    /\ UNCHANGED <<body_lock, trailers, read_locked, read_waiters, cancel,
                   rx_changed, frames, stream_end, pos, fill_pc, ncalls,
                   ncloses, log, closeCalled, closeReturned, afterClose,
                   closedDuring>>
    /\ UNCHANGED iterVars
    /\ UNCHANGED tpVars

\* Mutant: an interrupted read puts the handle back into the slot.
ChunkCancelled_Restores(r) ==
    /\ pc[r] = "select"
    /\ rx_changed[r]
    /\ pc' = [pc EXCEPT ![r] = "release"]
    /\ res' = [res EXCEPT ![r] = Ended]
    /\ held' = [held EXCEPT ![r] = FALSE]
    /\ rx_alive' = [rx_alive EXCEPT ![r] = FALSE]
    /\ body' = "Some"
    /\ UNCHANGED <<slot, synclog>>
    /\ UNCHANGED reqVars
    /\ UNCHANGED callVars
    /\ UNCHANGED <<body_lock, trailers, read_locked, read_waiters, cancel,
                   rx_changed, frames, stream_end, pos, fill_pc, ncalls,
                   ncloses, log, closeCalled, closeReturned, afterClose,
                   closedDuring>>
    /\ UNCHANGED iterVars
    /\ UNCHANGED tpVars

\* Lines 113-116: the select! branch cancel_rx.changed() wins.
ChunkCancelled(r) ==
    /\ pc[r] = "select"
    /\ rx_changed[r]
    /\ pc' = [pc EXCEPT ![r] = "release"]
    /\ res' = [res EXCEPT ![r] = Ended]
    /\ held' = [held EXCEPT ![r] = FALSE]
    /\ rx_alive' = [rx_alive EXCEPT ![r] = FALSE]
    /\ UNCHANGED <<slot, synclog>>
    /\ UNCHANGED reqVars
    /\ UNCHANGED callVars
    /\ UNCHANGED <<body, body_lock, trailers, read_locked, read_waiters, cancel,
                   rx_changed, frames, stream_end, pos, fill_pc, ncalls,
                   ncloses, log, closeCalled, closeReturned, afterClose,
                   closedDuring>>
    /\ UNCHANGED iterVars
    /\ UNCHANGED tpVars

\* Mutant: a trailers frame is dropped like an unrecognised frame.
FrameTrailers_Ignored(k, i, old) == old

\* Lines 135-139: only a trailers frame changes the trailers.
FrameTrailers(k, i, old) == IF k = "trailers" THEN HeadersFill(i) ELSE old

\* Mutant: a frame that is neither data nor trailers ends the read.
ChunkFrame_OtherEnds(r) ==
    /\ pc[r] = "select"
    /\ held[r]
    /\ IF pos < Len(frames)
       THEN LET i == pos + 1
                k == frames[i]
            IN /\ pos' = i
               /\ CASE k = "data" ->
                         /\ pc' = [pc EXCEPT ![r] = "restore"]
                         /\ res' = [res EXCEPT ![r] = i]
                         /\ UNCHANGED <<held, rx_alive, trailers>>
                    [] k = "error" ->
                         /\ pc' = [pc EXCEPT ![r] = "release"]
                         /\ res' = [res EXCEPT ![r] = Failed]
                         /\ held' = [held EXCEPT ![r] = FALSE]
                         /\ rx_alive' = [rx_alive EXCEPT ![r] = FALSE]
                         /\ UNCHANGED trailers
                    [] k = "trailers" ->
                         /\ trailers' = FrameTrailers(k, i, trailers)
                         /\ UNCHANGED <<pc, res, held, rx_alive>>
                    [] OTHER ->
                         /\ pc' = [pc EXCEPT ![r] = "release"]
                         /\ res' = [res EXCEPT ![r] = Ended]
                         /\ held' = [held EXCEPT ![r] = FALSE]
                         /\ rx_alive' = [rx_alive EXCEPT ![r] = FALSE]
                         /\ UNCHANGED trailers
       ELSE /\ stream_end
            /\ pc' = [pc EXCEPT ![r] = "release"]
            /\ res' = [res EXCEPT ![r] = Ended]
            /\ held' = [held EXCEPT ![r] = FALSE]
            /\ rx_alive' = [rx_alive EXCEPT ![r] = FALSE]
            /\ UNCHANGED <<pos, trailers>>
    /\ UNCHANGED <<slot, synclog>>
    /\ UNCHANGED reqVars
    /\ UNCHANGED callVars
    /\ UNCHANGED <<body, body_lock, read_locked, read_waiters, cancel,
                   rx_changed, frames, stream_end, fill_pc, ncalls,
                   ncloses, log, closeCalled, closeReturned, afterClose,
                   closedDuring>>
    /\ UNCHANGED iterVars
    /\ UNCHANGED tpVars

\* Mutant: after a failed frame the handle goes back into the slot.
ChunkFrame_ErrorRestores(r) ==
    /\ pc[r] = "select"
    /\ held[r]
    /\ IF pos < Len(frames)
       THEN LET i == pos + 1
                k == frames[i]
            IN /\ pos' = i
               /\ CASE k = "data" ->
                         /\ pc' = [pc EXCEPT ![r] = "restore"]
                         /\ res' = [res EXCEPT ![r] = i]
                         /\ UNCHANGED <<held, rx_alive, trailers, body>>
                    [] k = "error" ->
                         /\ pc' = [pc EXCEPT ![r] = "release"]
                         /\ res' = [res EXCEPT ![r] = Failed]
                         /\ held' = [held EXCEPT ![r] = FALSE]
                         /\ rx_alive' = [rx_alive EXCEPT ![r] = FALSE]
                         /\ body' = "Some"
                         /\ UNCHANGED trailers
                    [] k = "trailers" ->
                         /\ trailers' = FrameTrailers(k, i, trailers)
                         /\ UNCHANGED <<pc, res, held, rx_alive, body>>
                    [] OTHER ->
                         UNCHANGED <<pc, res, held, rx_alive, trailers, body>>
       ELSE /\ stream_end
            /\ pc' = [pc EXCEPT ![r] = "release"]
            /\ res' = [res EXCEPT ![r] = Ended]
            /\ held' = [held EXCEPT ![r] = FALSE]
            /\ rx_alive' = [rx_alive EXCEPT ![r] = FALSE]
            /\ UNCHANGED <<pos, trailers, body>>
    /\ UNCHANGED <<slot, synclog>>
    /\ UNCHANGED reqVars
    /\ UNCHANGED callVars
    /\ UNCHANGED <<body_lock, read_locked, read_waiters, cancel,
                   rx_changed, frames, stream_end, fill_pc, ncalls,
                   ncloses, log, closeCalled, closeReturned, afterClose,
                   closedDuring>>
    /\ UNCHANGED iterVars
    /\ UNCHANGED tpVars

\* Lines 117-140: the select! branch body.frame() wins; classify the frame.
ChunkFrame(r) ==
    /\ pc[r] = "select"
    /\ held[r]
    /\ IF pos < Len(frames)
       THEN LET i == pos + 1
                k == frames[i]
            IN /\ pos' = i
               /\ CASE k = "data" ->
                         /\ pc' = [pc EXCEPT ![r] = "restore"]
                         /\ res' = [res EXCEPT ![r] = i]
                         /\ UNCHANGED <<held, rx_alive, trailers>>
                    [] k = "error" ->
                         /\ pc' = [pc EXCEPT ![r] = "release"]
                         /\ res' = [res EXCEPT ![r] = Failed]
                         /\ held' = [held EXCEPT ![r] = FALSE]
                         /\ rx_alive' = [rx_alive EXCEPT ![r] = FALSE]
                         /\ UNCHANGED trailers
                    [] k = "trailers" ->
                         /\ trailers' = FrameTrailers(k, i, trailers)
                         /\ UNCHANGED <<pc, res, held, rx_alive>>
                    [] OTHER ->
                         UNCHANGED <<pc, res, held, rx_alive, trailers>>
       ELSE /\ stream_end
            /\ pc' = [pc EXCEPT ![r] = "release"]
            /\ res' = [res EXCEPT ![r] = Ended]
            /\ held' = [held EXCEPT ![r] = FALSE]
            /\ rx_alive' = [rx_alive EXCEPT ![r] = FALSE]
            /\ UNCHANGED <<pos, trailers>>
    /\ UNCHANGED <<slot, synclog>>
    /\ UNCHANGED reqVars
    /\ UNCHANGED callVars
    /\ UNCHANGED <<body, body_lock, read_locked, read_waiters, cancel,
                   rx_changed, frames, stream_end, fill_pc, ncalls,
                   ncloses, log, closeCalled, closeReturned, afterClose,
                   closedDuring>>
    /\ UNCHANGED iterVars
    /\ UNCHANGED tpVars

\* Mutant: the handle is dropped instead of going back into the slot.
ChunkRestore_Drop(r) ==
    /\ pc[r] = "restore"
    /\ body_lock = "free"
    /\ held' = [held EXCEPT ![r] = FALSE]
    /\ rx_alive' = [rx_alive EXCEPT ![r] = FALSE]
    /\ pc' = [pc EXCEPT ![r] = "release"]
    /\ UNCHANGED <<slot, synclog>>
    /\ UNCHANGED reqVars
    /\ UNCHANGED callVars
    /\ UNCHANGED <<body, body_lock, trailers, read_locked, read_waiters, cancel,
                   rx_changed, frames, stream_end, pos, fill_pc, res, ncalls,
                   ncloses, log, closeCalled, closeReturned, afterClose,
                   closedDuring>>
    /\ UNCHANGED iterVars
    /\ UNCHANGED tpVars

\* Lines 131-133: put the handle back into the slot and return the data.
ChunkRestore(r) ==
    /\ pc[r] = "restore"
    /\ body_lock = "free"
    /\ body' = "Some"
    /\ held' = [held EXCEPT ![r] = FALSE]
    /\ rx_alive' = [rx_alive EXCEPT ![r] = FALSE]
    /\ pc' = [pc EXCEPT ![r] = "release"]
    /\ UNCHANGED <<slot, synclog>>
    /\ UNCHANGED reqVars
    /\ UNCHANGED callVars
    /\ UNCHANGED <<body_lock, trailers, read_locked, read_waiters, cancel,
                   rx_changed, frames, stream_end, pos, fill_pc, res, ncalls,
                   ncloses, log, closeCalled, closeReturned, afterClose,
                   closedDuring>>
    /\ UNCHANGED iterVars
    /\ UNCHANGED tpVars

\* _read_guard is dropped last; chunk() returns res[r] to the task that
\* awaited it, which passes it on: tx.send(chunk) in __next__ (sync/response.rs
\* line 135), the resolution of the future in __anext__.
ChunkRelease(r) ==
    /\ pc[r] = "release"
    /\ UnlockRead(r, "deliver")
    /\ log' = Append(log, res[r])
    /\ slot' = [slot EXCEPT ![r] = Append(@, res[r])]
    /\ res' = [res EXCEPT ![r] = Ended]
    /\ afterClose' = [afterClose EXCEPT ![r] = FALSE]
    /\ closedDuring' = [closedDuring EXCEPT ![r] = FALSE]
    /\ UNCHANGED synclog
    /\ UNCHANGED reqVars
    /\ UNCHANGED callVars
    /\ UNCHANGED <<body, body_lock, trailers, cancel, rx_alive, rx_changed,
                   frames, stream_end, pos, fill_pc, held, ncalls, ncloses,
                   closeCalled, closeReturned>>
    /\ UNCHANGED iterVars
    /\ UNCHANGED tpVars

\* The wrapper each reader goes through: r1 iterates a SyncContentGenerator,
\* r2 an asyncio ContentGenerator.
ModeOf(r) == IF r = "r1" THEN "sync" ELSE "async"

\* Mutant: __next__ turns an error into the end of the iteration.
SyncNextResult_ErrEnds(x) ==
    IF x >= 1 THEN <<"chunk", x>> ELSE <<"stop", 0>>

\* SyncContentGenerator::__next__, lines 137-139: the PyResult<Option<Bytes>>
\* from the one-shot goes to the host as it is: Err raises, Ok(None) ends the
\* iteration (StopIteration), Ok(Some(bytes)) is the next value.
SyncNextResult(x) ==
    IF x = Failed THEN <<"raise", 0>>
    ELSE IF x = Ended THEN <<"stop", 0>>
    ELSE <<"chunk", x>>

\* ContentGenerator::__anext__, lines 181-186: `?` raises the error,
\* Some(bytes) is the value, None raises StopAsyncIteration.
AsyncNextResult(x) ==
    IF x = Failed THEN <<"raise", 0>>
    ELSE IF x >= 1 THEN <<"chunk", x>>
    ELSE <<"stop", 0>>

\* blocking_recv (sync) or the awaited future (asyncio) hands the result to
\* the host; the reader can then start its next read.
NextReturn(r) ==
    /\ pc[r] = "deliver"
    /\ slot[r] # <<>>
    /\ slot' = [slot EXCEPT ![r] = Tail(@)]
    /\ synclog' = IF ModeOf(r) = "sync"
                  THEN Append(synclog, SyncNextResult(Head(slot[r])))
                  ELSE synclog
    /\ pc' = [pc EXCEPT ![r] = "idle"]
    /\ UNCHANGED reqVars
    /\ UNCHANGED callVars
    /\ UNCHANGED <<body, body_lock, trailers, read_locked, read_waiters, cancel,
                   rx_alive, rx_changed, frames, stream_end, pos, fill_pc, held,
                   res, ncalls, ncloses, log, closeCalled, closeReturned,
                   afterClose, closedDuring>>
    /\ UNCHANGED iterVars
    /\ UNCHANGED tpVars

----------------------------------------------------------------------------
\* asyncio Response::close: try_close(), and close() when that returned false.

\* try_close line 155: cancel_tx.send(true)
TrySend(c) ==
    /\ Delivered
    /\ pc[c] = "idle"
    /\ ncloses < MaxCloses
    /\ ncloses' = ncloses + 1
    /\ cancel' = WatchSend(cancel)
    /\ rx_changed' = NotifyReceivers
    /\ pc' = [pc EXCEPT ![c] = "t_lock"]
    /\ UNCHANGED <<slot, synclog>>
    /\ UNCHANGED reqVars
    /\ UNCHANGED callVars
    /\ UNCHANGED <<body, body_lock, trailers, read_locked, read_waiters,
                   rx_alive, frames, stream_end, pos, fill_pc, held, res,
                   ncalls, log, closeCalled, closeReturned,
                   afterClose, closedDuring>>
    /\ UNCHANGED iterVars
    /\ UNCHANGED tpVars

\* Mutant: try_close goes on to the slot although read_lock is taken.
TryLock_IgnoreBusy(c) ==
    /\ pc[c] = "t_lock"
    /\ read_locked' = TRUE
    /\ pc' = [pc EXCEPT ![c] = "t_body"]
    /\ UNCHANGED <<slot, synclog>>
    /\ UNCHANGED reqVars
    /\ UNCHANGED callVars
    /\ UNCHANGED <<body, body_lock, trailers, read_waiters, cancel, rx_alive,
                   rx_changed, frames, stream_end, pos, fill_pc, held, res,
                   ncalls, ncloses, log, closeCalled, closeReturned,
                   afterClose, closedDuring>>
    /\ UNCHANGED iterVars
    /\ UNCHANGED tpVars

\* try_close lines 156-158: read_lock.try_lock(), else return false.
TryLock(c) ==
    /\ pc[c] = "t_lock"
    /\ IF ~read_locked /\ read_waiters = <<>>
       THEN /\ read_locked' = TRUE
            /\ pc' = [pc EXCEPT ![c] = "t_body"]
       ELSE /\ read_locked' = read_locked
            /\ pc' = [pc EXCEPT ![c] = "c_send"]
    /\ UNCHANGED <<slot, synclog>>
    /\ UNCHANGED reqVars
    /\ UNCHANGED callVars
    /\ UNCHANGED <<body, body_lock, trailers, read_waiters, cancel, rx_alive,
                   rx_changed, frames, stream_end, pos, fill_pc, held, res,
                   ncalls, ncloses, log, closeCalled, closeReturned,
                   afterClose, closedDuring>>
    /\ UNCHANGED iterVars
    /\ UNCHANGED tpVars

\* Mutant: try_close reports success without emptying the slot.
TryBody_KeepsSlot(c) ==
    /\ pc[c] = "t_body"
    /\ IF body_lock = "free"
       THEN /\ UnlockRead(c, "idle")
            /\ closeReturned' = TRUE
            /\ UNCHANGED body
       ELSE /\ UnlockRead(c, "c_send")
            /\ UNCHANGED <<body, closeReturned>>
    /\ UNCHANGED <<slot, synclog>>
    /\ UNCHANGED reqVars
    /\ UNCHANGED callVars
    /\ UNCHANGED <<body_lock, trailers, cancel, rx_alive, rx_changed, frames,
                   stream_end, pos, fill_pc, held, res, ncalls, ncloses, log,
                   closeCalled, afterClose, closedDuring>>
    /\ UNCHANGED iterVars
    /\ UNCHANGED tpVars

\* try_close lines 159-164: body.try_lock(); clear the slot on success.
TryBody(c) ==
    /\ pc[c] = "t_body"
    /\ IF body_lock = "free"
       THEN /\ body' = "None"
            /\ UnlockRead(c, "idle")
            /\ closeReturned' = TRUE
       ELSE /\ UnlockRead(c, "c_send")
            /\ UNCHANGED <<body, closeReturned>>
    /\ UNCHANGED <<slot, synclog>>
    /\ UNCHANGED reqVars
    /\ UNCHANGED callVars
    /\ UNCHANGED <<body_lock, trailers, cancel, rx_alive, rx_changed, frames,
                   stream_end, pos, fill_pc, held, res, ncalls, ncloses, log,
                   closeCalled, afterClose, closedDuring>>
    /\ UNCHANGED iterVars
    /\ UNCHANGED tpVars

\* close line 148: cancel_tx.send(true)
CloseSend(c) ==
    /\ pc[c] = "c_send"
    /\ cancel' = WatchSend(cancel)
    /\ rx_changed' = NotifyReceivers
    /\ pc' = [pc EXCEPT ![c] = "c_lock"]
    /\ closeCalled' = TRUE
    /\ closedDuring' = [r \in Readers |->
                           closedDuring[r] \/ pc[r] \in ReaderBusy]
    /\ UNCHANGED <<slot, synclog>>
    /\ UNCHANGED reqVars
    /\ UNCHANGED callVars
    /\ UNCHANGED <<body, body_lock, trailers, read_locked, read_waiters,
                   rx_alive, frames, stream_end, pos, fill_pc, held, res,
                   ncalls, ncloses, log, closeReturned, afterClose>>
    /\ UNCHANGED iterVars
    /\ UNCHANGED tpVars

\* close line 149: read_lock.lock().await
CloseLock(c) ==
    /\ pc[c] = "c_lock"
    /\ LockRead(c, "c_clear", "c_wait")
    /\ UNCHANGED <<slot, synclog>>
    /\ UNCHANGED reqVars
    /\ UNCHANGED callVars
    /\ UNCHANGED <<body, body_lock, trailers, cancel, rx_alive, rx_changed,
                   frames, stream_end, pos, fill_pc, held, res, ncalls,
                   ncloses, log, closeCalled, closeReturned, afterClose,
                   closedDuring>>
    /\ UNCHANGED iterVars
    /\ UNCHANGED tpVars

\* Mutant: close() returns without emptying the slot.
CloseClear_KeepBody(c) ==
    /\ pc[c] = "c_clear"
    /\ body_lock = "free"
    /\ UnlockRead(c, "idle")
    /\ closeReturned' = TRUE
    /\ UNCHANGED <<slot, synclog>>
    /\ UNCHANGED reqVars
    /\ UNCHANGED callVars
    /\ UNCHANGED <<body, body_lock, trailers, cancel, rx_alive, rx_changed, frames,
                   stream_end, pos, fill_pc, held, res, ncalls, ncloses, log,
                   closeCalled, afterClose, closedDuring>>
    /\ UNCHANGED iterVars
    /\ UNCHANGED tpVars

\* Mutant: close() also resets the trailers to an empty collection.
CloseClear_DropTrailers(c) ==
    /\ pc[c] = "c_clear"
    /\ body_lock = "free"
    /\ body' = "None"
    /\ trailers' = HeadersEmpty
    /\ UnlockRead(c, "idle")
    /\ closeReturned' = TRUE
    /\ UNCHANGED <<slot, synclog>>
    /\ UNCHANGED reqVars
    /\ UNCHANGED callVars
    /\ UNCHANGED <<body_lock, cancel, rx_alive, rx_changed, frames,
                   stream_end, pos, fill_pc, held, res, ncalls, ncloses, log,
                   closeCalled, afterClose, closedDuring>>
    /\ UNCHANGED iterVars
    /\ UNCHANGED tpVars

\* close lines 150-152: clear the slot, drop the guards, return.
CloseClear(c) ==
    /\ pc[c] = "c_clear"
    /\ body_lock = "free"
    /\ body' = "None"
    /\ UnlockRead(c, "idle")
    /\ closeReturned' = TRUE
    /\ UNCHANGED <<slot, synclog>>
    /\ UNCHANGED reqVars
    /\ UNCHANGED callVars
    /\ UNCHANGED <<body_lock, trailers, cancel, rx_alive, rx_changed, frames,
                   stream_end, pos, fill_pc, held, res, ncalls, ncloses, log,
                   closeCalled, afterClose, closedDuring>>
    /\ UNCHANGED iterVars
    /\ UNCHANGED tpVars

\* asyncio Response::close, lines 153-155: the content is Content::Custom, no
\* ResponseBody exists, an EmptyAwaitable is returned.
CloseCustom(c) ==
    /\ content = "Custom"
    /\ pc[c] = "idle"
    /\ ncloses < MaxCloses
    /\ ncloses' = ncloses + 1
    /\ closeReturned' = TRUE
    /\ UNCHANGED <<slot, synclog>>
    /\ UNCHANGED reqVars
    /\ UNCHANGED callVars
    /\ UNCHANGED <<body, body_lock, trailers, read_locked, read_waiters, cancel,
                   rx_alive, rx_changed, frames, stream_end, pos, fill_pc, pc,
                   held, res, ncalls, log, closeCalled, afterClose,
                   closedDuring>>
    /\ UNCHANGED iterVars
    /\ UNCHANGED tpVars

----------------------------------------------------------------------------
\* Sync-iterator request body.

\* mpsc::channel(1)
ChanCap == 1

ItemKinds == {"bytes", "bad", "raise"}

NoItem == <<"none", 0>>

\* Outcome of the n-th `iter.next()` followed by extract::<Bytes>():
\* a chunk, an error, or exhaustion.
PullResult(n) ==
    IF n > Len(script) THEN NoItem
    ELSE IF script[n] = "bytes" THEN <<"ok", n>>
    ELSE <<"err", n>>

\* spawn_blocking: the closure runs on the runtime's blocking thread pool.
SpawnBlocking == "blocking"

\* SyncRequest::content_into_reqwest lines 98-100: channel created, worker
\* spawned with a new reference to the request's iterator. Called by the sync
\* caller while it holds the interpreter (sync/transport.rs line 175), which
\* keeps the iterator returned with the body in request_iter (line 176) and
\* then spawns the engine task (line 182). SyncClient::execute keeps no handle.
ContentIntoReqwest ==
    /\ adapter = "SyncRequest"
    /\ wk_pc = "unspawned"
    /\ \/ call_pc = "start" /\ gil = "caller"
       \/ call_pc = "none" /\ entry = "none"
    /\ wk_pc' = "attach"
    /\ wk_thread' = SpawnBlocking
    /\ nexec' = nexec + 1
    /\ call_pc' = IF call_pc = "start" THEN "spawned" ELSE call_pc
    /\ iter_handle' = IF entry = "SyncClient" THEN "None" ELSE "Some"
    /\ UNCHANGED iter_closes
    /\ UNCHANGED <<adapter, script, iter_pos, wk_item, chan, rx_closed,
                   received, recv_end>>
    /\ UNCHANGED respVars
    /\ UNCHANGED <<entry, gil, oneshot, exc, err, pullers>>
    /\ UNCHANGED tpVars

\* Python::attach (sync/request.rs line 101, body.rs line 167) and the
\* re-attach when py.detach returns: the worker waits for the interpreter.
WorkerAttach ==
    /\ wk_pc = "attach"
    /\ gil = "free"
    /\ gil' = "worker"
    /\ wk_pc' = "pull"
    /\ UNCHANGED reqVarsButPc
    /\ UNCHANGED respVars
    /\ UNCHANGED <<entry, call_pc, oneshot, exc, err, nexec, wk_thread, pullers>>
    /\ UNCHANGED iterVars
    /\ UNCHANGED tpVars

\* The worker leaves the loop after py.detach returned: it re-attaches, breaks
\* and leaves Python::attach, dropping tx.
WorkerExit ==
    /\ wk_pc = "exit"
    /\ gil = "free"
    /\ wk_pc' = "done"
    /\ UNCHANGED reqVarsButPc
    /\ UNCHANGED respVars
    /\ UNCHANGED callVars
    /\ UNCHANGED iterVars
    /\ UNCHANGED tpVars

\* Mutant: blocking_send is called without py.detach, under the interpreter.
SyncRequestPull_KeepsInterpreter ==
    /\ adapter = "SyncRequest"
    /\ wk_pc = "pull"
    /\ gil = "worker"
    /\ iter_pos' = iter_pos + 1
    /\ pullers' = pullers \cup {<<nexec, wk_thread>>}
    /\ LET r == PullResult(iter_pos + 1)
       IN IF r = NoItem
          THEN /\ wk_pc' = "done"
               /\ gil' = "free"
               /\ UNCHANGED wk_item
          ELSE /\ wk_pc' = "send"
               /\ gil' = gil
               /\ wk_item' = r
    /\ UNCHANGED <<adapter, script, chan, rx_closed, received, recv_end>>
    /\ UNCHANGED respVars
    /\ UNCHANGED <<entry, call_pc, oneshot, exc, err, nexec, wk_thread>>
    /\ UNCHANGED iterVars
    /\ UNCHANGED tpVars

\* SyncRequest worker, lines 104-115: pull the next item under the
\* interpreter; on exhaustion break, else detach for blocking_send.
SyncRequestPull ==
    /\ adapter = "SyncRequest"
    /\ wk_pc = "pull"
    /\ gil = "worker"
    /\ iter_pos' = iter_pos + 1
    /\ pullers' = pullers \cup {<<nexec, wk_thread>>}
    /\ gil' = "free"
    /\ LET r == PullResult(iter_pos + 1)
       IN IF r = NoItem
          THEN /\ wk_pc' = "done"
               /\ UNCHANGED wk_item
          ELSE /\ wk_pc' = "send"
               /\ wk_item' = r
    /\ UNCHANGED <<adapter, script, chan, rx_closed, received, recv_end>>
    /\ UNCHANGED respVars
    /\ UNCHANGED <<entry, call_pc, oneshot, exc, err, nexec, wk_thread>>
    /\ UNCHANGED iterVars
    /\ UNCHANGED tpVars

\* Mutant: a full channel makes the worker discard the item and go on.
SyncRequestSend_Lossy ==
    /\ adapter = "SyncRequest"
    /\ wk_pc = "send"
    /\ IF rx_closed
       THEN /\ wk_pc' = "exit"
            /\ UNCHANGED chan
       ELSE /\ chan' = IF Len(chan) < ChanCap THEN Append(chan, wk_item) ELSE chan
            /\ wk_pc' = IF wk_item[1] = "err" THEN "exit" ELSE "attach"
    /\ wk_item' = NoItem
    /\ UNCHANGED <<adapter, script, iter_pos, rx_closed, received, recv_end>>
    /\ UNCHANGED respVars
    /\ UNCHANGED callVars
    /\ UNCHANGED iterVars
    /\ UNCHANGED tpVars

\* Mutant: a failed send does not end the loop, the worker pulls again.
SyncRequestSend_IgnoreClosed ==
    /\ adapter = "SyncRequest"
    /\ wk_pc = "send"
    /\ IF rx_closed
       THEN /\ wk_pc' = IF wk_item[1] = "err" THEN "exit" ELSE "attach"
            /\ UNCHANGED chan
       ELSE /\ Len(chan) < ChanCap
            /\ chan' = Append(chan, wk_item)
            /\ wk_pc' = IF wk_item[1] = "err" THEN "exit" ELSE "attach"
    /\ wk_item' = NoItem
    /\ UNCHANGED <<adapter, script, iter_pos, rx_closed, received, recv_end>>
    /\ UNCHANGED respVars
    /\ UNCHANGED callVars
    /\ UNCHANGED iterVars
    /\ UNCHANGED tpVars

\* SyncRequest worker, lines 115-117: blocking_send with the interpreter
\* released, then break or loop.
SyncRequestSend ==
    /\ adapter = "SyncRequest"
    /\ wk_pc = "send"
    /\ IF rx_closed
       THEN /\ wk_pc' = "exit"
            /\ UNCHANGED chan
       ELSE /\ Len(chan) < ChanCap
            /\ chan' = Append(chan, wk_item)
            /\ wk_pc' = IF wk_item[1] = "err" THEN "exit" ELSE "attach"
    /\ wk_item' = NoItem
    /\ UNCHANGED <<adapter, script, iter_pos, rx_closed, received, recv_end>>
    /\ UNCHANGED respVars
    /\ UNCHANGED callVars
    /\ UNCHANGED iterVars
    /\ UNCHANGED tpVars

\* Mutant: a poll that finds the worker gone starts a new one.
IterStreamStart_Respawns ==
    /\ adapter = "IterStream"
    /\ wk_pc \in {"unspawned", "done"}
    /\ ~rx_closed
    /\ wk_pc' = "attach"
    /\ wk_thread' = SpawnBlocking
    /\ nexec' = nexec + 1
    /\ UNCHANGED <<adapter, script, iter_pos, wk_item, chan, rx_closed,
                   received, recv_end>>
    /\ UNCHANGED respVars
    /\ UNCHANGED <<entry, call_pc, gil, oneshot, exc, err, pullers>>
    /\ UNCHANGED iterVars
    /\ UNCHANGED tpVars

\* Mutant: the loop runs as an ordinary task on an engine scheduler thread.
IterStreamStart_OnScheduler ==
    /\ adapter = "IterStream"
    /\ wk_pc = "unspawned"
    /\ ~rx_closed
    /\ wk_pc' = "attach"
    /\ wk_thread' = "engine"
    /\ nexec' = nexec + 1
    /\ UNCHANGED <<adapter, script, iter_pos, wk_item, chan, rx_closed,
                   received, recv_end>>
    /\ UNCHANGED respVars
    /\ UNCHANGED <<entry, call_pc, gil, oneshot, exc, err, pullers>>
    /\ UNCHANGED iterVars
    /\ UNCHANGED tpVars

\* IterStream::start, lines 154-166, run by the first poll_next (line 203) on
\* the thread that polls the stream; the loop itself goes to spawn_blocking.
IterStreamStart ==
    /\ adapter = "IterStream"
    /\ wk_pc = "unspawned"
    /\ ~rx_closed
    /\ wk_pc' = "attach"
    /\ wk_thread' = SpawnBlocking
    /\ nexec' = nexec + 1
    /\ UNCHANGED <<adapter, script, iter_pos, wk_item, chan, rx_closed,
                   received, recv_end>>
    /\ UNCHANGED respVars
    /\ UNCHANGED <<entry, call_pc, gil, oneshot, exc, err, pullers>>
    /\ UNCHANGED iterVars
    /\ UNCHANGED tpVars

\* IterStream worker, lines 170-179: pull under the interpreter, then detach.
IterStreamPull ==
    /\ adapter = "IterStream"
    /\ wk_pc = "pull"
    /\ gil = "worker"
    /\ iter_pos' = iter_pos + 1
    /\ pullers' = pullers \cup {<<nexec, wk_thread>>}
    /\ gil' = "free"
    /\ LET r == PullResult(iter_pos + 1)
       IN IF r = NoItem
          THEN /\ wk_pc' = "exit"
               /\ UNCHANGED wk_item
          ELSE /\ wk_pc' = "send"
               /\ wk_item' = r
    /\ UNCHANGED <<adapter, script, chan, rx_closed, received, recv_end>>
    /\ UNCHANGED respVars
    /\ UNCHANGED <<entry, call_pc, oneshot, exc, err, nexec, wk_thread>>
    /\ UNCHANGED iterVars
    /\ UNCHANGED tpVars

\* Mutant: the worker keeps iterating after it has sent an error.
IterStreamSend_Continue ==
    /\ adapter = "IterStream"
    /\ wk_pc = "send"
    /\ IF rx_closed
       THEN /\ wk_pc' = "exit"
            /\ UNCHANGED chan
       ELSE /\ Len(chan) < ChanCap
            /\ chan' = Append(chan, wk_item)
            /\ wk_pc' = "attach"
    /\ wk_item' = NoItem
    /\ UNCHANGED <<adapter, script, iter_pos, rx_closed, received, recv_end>>
    /\ UNCHANGED respVars
    /\ UNCHANGED callVars
    /\ UNCHANGED iterVars
    /\ UNCHANGED tpVars

\* IterStream worker, lines 179-190: blocking_send with the interpreter
\* released; should_break on a closed receiver or after an error.
IterStreamSend ==
    /\ adapter = "IterStream"
    /\ wk_pc = "send"
    /\ IF rx_closed
       THEN /\ wk_pc' = "exit"
            /\ UNCHANGED chan
       ELSE /\ Len(chan) < ChanCap
            /\ chan' = Append(chan, wk_item)
            /\ wk_pc' = IF wk_item[1] = "err" THEN "exit" ELSE "attach"
    /\ wk_item' = NoItem
    /\ UNCHANGED <<adapter, script, iter_pos, rx_closed, received, recv_end>>
    /\ UNCHANGED respVars
    /\ UNCHANGED callVars
    /\ UNCHANGED iterVars
    /\ UNCHANGED tpVars

\* Receiver::poll_recv by the engine: Ready(Some(item)).
EngineRecv ==
    /\ Dispatched
    /\ ~rx_closed
    /\ wk_pc # "unspawned"
    /\ chan # <<>>
    /\ received' = Append(received, Head(chan))
    /\ chan' = Tail(chan)
    /\ UNCHANGED <<adapter, script, iter_pos, wk_pc, wk_item, rx_closed, recv_end>>
    /\ UNCHANGED respVars
    /\ UNCHANGED callVars
    /\ UNCHANGED iterVars
    /\ UNCHANGED tpVars

\* Mutant: the stream ends as soon as every sender is gone, buffered or not.
EngineRecvEnd_DropsBuffered ==
    /\ Dispatched
    /\ ~rx_closed
    /\ ~recv_end
    /\ wk_pc = "done"
    /\ recv_end' = TRUE
    /\ UNCHANGED <<adapter, script, iter_pos, wk_pc, wk_item, chan, rx_closed,
                   received>>
    /\ UNCHANGED respVars
    /\ UNCHANGED callVars
    /\ UNCHANGED iterVars
    /\ UNCHANGED tpVars

\* Receiver::poll_recv by the engine: Ready(None), every sender is gone.
EngineRecvEnd ==
    /\ Dispatched
    /\ ~rx_closed
    /\ ~recv_end
    /\ wk_pc = "done"
    /\ chan = <<>>
    /\ recv_end' = TRUE
    /\ UNCHANGED <<adapter, script, iter_pos, wk_pc, wk_item, chan, rx_closed,
                   received>>
    /\ UNCHANGED respVars
    /\ UNCHANGED callVars
    /\ UNCHANGED iterVars
    /\ UNCHANGED tpVars

\* The engine drops the request-body stream (request aborted or finished).
EngineDrop ==
    /\ Dispatched
    /\ ~rx_closed
    /\ ~recv_end
    /\ rx_closed' = TRUE
    /\ chan' = <<>>
    /\ UNCHANGED <<slot, synclog>>
    /\ UNCHANGED <<adapter, script, iter_pos, wk_pc, wk_item, received, recv_end>>
    /\ UNCHANGED respVars
    /\ UNCHANGED callVars
    /\ UNCHANGED iterVars
    /\ UNCHANGED tpVars

\* Async-iterator request body: asyncio::stream::into_stream and its Sender.

\* mpsc::channel::<Py<PyAny>>(10)
SenderCap == 10

\* Capacity of the channel the adapter in play created.
ChanCapOf == IF adapter = "Sender" THEN SenderCap ELSE ChanCap

\* into_stream, lines 26-43: channel and Sender created, forward task scheduled.
IntoStream ==
    /\ adapter = "Sender"
    /\ wk_pc = "unspawned"
    /\ wk_pc' = "pull"
    /\ wk_thread' = "host"
    /\ nexec' = nexec + 1
    /\ UNCHANGED <<adapter, script, iter_pos, wk_item, chan, rx_closed,
                   received, recv_end>>
    /\ UNCHANGED respVars
    /\ UNCHANGED <<entry, call_pc, gil, oneshot, exc, err, pullers>>
    /\ UNCHANGED iterVars
    /\ UNCHANGED tpVars

\* The forward task pulls one item from the async iterator; on exhaustion it
\* calls Sender::close (lines 78-81), which drops the only mpsc sender.
ForwardPull ==
    /\ adapter = "Sender"
    /\ wk_pc = "pull"
    /\ iter_pos' = iter_pos + 1
    /\ LET r == PullResult(iter_pos + 1)
       IN IF r = NoItem
          THEN /\ wk_pc' = "done"
               /\ UNCHANGED wk_item
          ELSE /\ wk_pc' = "send"
               /\ wk_item' = r
    /\ UNCHANGED <<adapter, script, chan, rx_closed, received, recv_end>>
    /\ UNCHANGED respVars
    /\ pullers' = pullers \cup {<<nexec, wk_thread>>}
    /\ UNCHANGED <<entry, call_pc, gil, oneshot, exc, err, nexec, wk_thread>>
    /\ UNCHANGED iterVars
    /\ UNCHANGED tpVars

\* Mutant: on a full channel the item is dropped and success is reported.
SenderSend_DropWhenFull ==
    /\ adapter = "Sender"
    /\ wk_pc = "send"
    /\ IF rx_closed
       THEN /\ wk_pc' = "done"
            /\ wk_item' = NoItem
            /\ UNCHANGED chan
       ELSE IF Len(chan) < SenderCap
       THEN /\ chan' = Append(chan, wk_item)
            /\ wk_pc' = "pull"
            /\ wk_item' = NoItem
       ELSE /\ wk_pc' = "pull"
            /\ wk_item' = NoItem
            /\ UNCHANGED chan
    /\ UNCHANGED <<adapter, script, iter_pos, rx_closed, received, recv_end>>
    /\ UNCHANGED respVars
    /\ UNCHANGED callVars
    /\ UNCHANGED iterVars
    /\ UNCHANGED tpVars

\* Mutant: a closed receiver is reported as a successful send.
SenderSend_ClosedReportsTrue ==
    /\ adapter = "Sender"
    /\ wk_pc = "send"
    /\ IF rx_closed
       THEN /\ wk_pc' = "pull"
            /\ wk_item' = NoItem
            /\ UNCHANGED chan
       ELSE IF Len(chan) < SenderCap
       THEN /\ chan' = Append(chan, wk_item)
            /\ wk_pc' = "pull"
            /\ wk_item' = NoItem
       ELSE /\ wk_pc' = "reserve"
            /\ UNCHANGED <<chan, wk_item>>
    /\ UNCHANGED <<adapter, script, iter_pos, rx_closed, received, recv_end>>
    /\ UNCHANGED respVars
    /\ UNCHANGED callVars
    /\ UNCHANGED iterVars
    /\ UNCHANGED tpVars

\* Sender::send, lines 54-76: try_send; Closed -> false (the forward task
\* stops), Ok -> true, Full -> a future that reserves a permit.
SenderSend ==
    /\ adapter = "Sender"
    /\ wk_pc = "send"
    /\ IF rx_closed
       THEN /\ wk_pc' = "done"
            /\ wk_item' = NoItem
            /\ UNCHANGED chan
       ELSE IF Len(chan) < SenderCap
       THEN /\ chan' = Append(chan, wk_item)
            /\ wk_pc' = "pull"
            /\ wk_item' = NoItem
       ELSE /\ wk_pc' = "reserve"
            /\ UNCHANGED <<chan, wk_item>>
    /\ UNCHANGED <<adapter, script, iter_pos, rx_closed, received, recv_end>>
    /\ UNCHANGED respVars
    /\ UNCHANGED callVars
    /\ UNCHANGED iterVars
    /\ UNCHANGED tpVars

\* Sender::send, lines 63-69: tx.reserve().await, then permit.send(item);
\* a closed receiver resolves the future to false.
SenderReserve ==
    /\ adapter = "Sender"
    /\ wk_pc \in {"reserve", "reserve_closed"}
    /\ IF rx_closed
       THEN /\ wk_pc' = "done"
            /\ UNCHANGED chan
       ELSE /\ Len(chan) < SenderCap
            /\ chan' = Append(chan, wk_item)
            /\ wk_pc' = IF wk_pc = "reserve" THEN "pull" ELSE "done"
    /\ wk_item' = NoItem
    /\ UNCHANGED <<adapter, script, iter_pos, rx_closed, received, recv_end>>
    /\ UNCHANGED respVars
    /\ UNCHANGED callVars
    /\ UNCHANGED iterVars
    /\ UNCHANGED tpVars

\* Sender::close, lines 78-81, called while a send is pending on the full
\* queue (the forward task is cancelled in its await): the Sender's own tx is
\* dropped, the pending future still holds the clone of line 62.
SenderClose ==
    /\ adapter = "Sender"
    /\ wk_pc = "reserve"
    /\ wk_pc' = "reserve_closed"
    /\ UNCHANGED reqVarsButPc
    /\ UNCHANGED respVars
    /\ UNCHANGED callVars
    /\ UNCHANGED iterVars
    /\ UNCHANGED tpVars

\* An async body of n byte chunks.
SenderScripts == {[i \in 1..n |-> "bytes"] : n \in 0..MaxSent}

Scripts == UNION {[1..n -> ItemKinds] : n \in 0..MaxItems}

ReqInit ==
    /\ adapter \in {"SyncRequest", "IterStream", "Sender"}
    /\ script \in (IF adapter = "Sender" THEN SenderScripts ELSE Scripts)
    /\ iter_pos = 0
    /\ wk_pc = "unspawned"
    /\ wk_item = NoItem
    /\ chan = <<>>
    /\ rx_closed = FALSE
    /\ received = <<>>
    /\ recv_end = FALSE

\* No request body in play.
ReqIdle ==
    /\ adapter = "SyncRequest"
    /\ script = <<>>
    /\ iter_pos = 0
    /\ wk_pc = "unspawned"
    /\ wk_item = NoItem
    /\ chan = <<>>
    /\ rx_closed = FALSE
    /\ received = <<>>
    /\ recv_end = FALSE

ReqNext ==
    \/ ContentIntoReqwest
    \/ WorkerAttach
    \/ WorkerExit
    \/ SyncRequestPull
    \/ SyncRequestSend
    \/ IterStreamStart
    \/ IterStreamPull
    \/ IterStreamSend
    \/ IntoStream
    \/ ForwardPull
    \/ SenderSend
    \/ SenderReserve
    \/ SenderClose
    \/ EngineRecv
    \/ EngineRecvEnd
    \/ EngineDrop

----------------------------------------------------------------------------
\* Transport object: SyncHttpTransport / HttpTransport, execute and close,
\* with the operation each execute opens on the instrumentation.

\* The execute calls the host makes on the transport.
Execs == {1, 2}

\* PyRuntimeError raised by send / do_stream when the client slot is empty.
ClosedError == "Executing request on already closed transport"

\* An execute call the host has not made yet.
IdleOp ==
    [pc |-> "idle", client |-> FALSE, touched |-> FALSE, started |-> 0,
     ended |-> 0, out |-> "none", after |-> 0]

\* No transport-level activity: a constructed async transport, no execute.
TpIdleOf(k) ==
    /\ tp_mode = "async"
    /\ tp_close = TRUE
    /\ tp_client = "Some"
    /\ tp_closes = 0
    /\ active = 0
    /\ ops = [i \in Execs |-> IdleOp]
    /\ content = k

TpIdle == TpIdleOf("Http")

\* A transport made by its constructor (close: true) or the shared default
\* transport made by py_default (close: false), with its client in place.
TpInit ==
    /\ tp_mode \in {"sync", "async"}
    /\ tp_close \in BOOLEAN
    /\ tp_client = "Some"
    /\ tp_closes = 0
    /\ active = 0
    /\ ops = [i \in Execs |-> IdleOp]
    /\ content = "Http"

\* Instrumentation::start, line 133: active_requests.add(1) is its last
\* fallible call, the Operation exists from then on.
OperationStart(o) == [o EXCEPT !.started = @ + 1]

\* Operation::end, line 218: active_requests.add(-1).
OperationEnd(o) == [o EXCEPT !.ended = @ + 1]

\* Mutant: close clears the client whatever the `close` field says.
TransportClose_Always ==
    /\ tp_closes < MaxTpCloses
    /\ tp_closes' = tp_closes + 1
    /\ tp_client' = "None"
    /\ UNCHANGED <<tp_mode, tp_close, active, ops, content>>
    /\ UNCHANGED <<respVars, reqVars, callVars, iterVars>>

\* SyncHttpTransport::close (also __exit__) and HttpTransport::aclose (also
\* __aexit__): if self.close { self.client.store(None) }.
TransportClose ==
    /\ tp_closes < MaxTpCloses
    /\ tp_closes' = tp_closes + 1
    /\ tp_client' = IF tp_close THEN "None" ELSE tp_client
    /\ UNCHANGED <<tp_mode, tp_close, active, ops, content>>
    /\ UNCHANGED <<respVars, reqVars, callVars, iterVars>>

\* SyncHttpTransport::do_stream line 157: the operation is started first.
SyncStart(i) ==
    /\ tp_mode = "sync"
    /\ ops[i].pc = "idle"
    /\ ops' = [ops EXCEPT ![i] =
                  [OperationStart(@) EXCEPT !.pc = "load", !.after = tp_closes]]
    /\ active' = active + 1
    /\ UNCHANGED <<tp_mode, tp_close, tp_client, tp_closes, content>>
    /\ UNCHANGED <<respVars, reqVars, callVars, iterVars>>

\* Mutant: send builds the request before it looks at the client slot.
SyncLoad_BuildsFirst(i) ==
    /\ tp_mode = "sync"
    /\ ops[i].pc = "load"
    /\ ops' = [ops EXCEPT ![i] =
                  IF tp_client = "None"
                  THEN [@ EXCEPT !.pc = "end", !.out = ClosedError,
                                 !.touched = TRUE]
                  ELSE [@ EXCEPT !.pc = "build", !.client = TRUE]]
    /\ UNCHANGED <<tp_mode, tp_close, tp_client, tp_closes, active, content>>
    /\ UNCHANGED <<respVars, reqVars, callVars, iterVars>>

\* SyncHttpTransport::send lines 169-174: load the client; an empty slot is
\* the closed-transport error, else this call keeps the client it loaded
\* (the guard, then the clone of line 180).
SyncLoad(i) ==
    /\ tp_mode = "sync"
    /\ ops[i].pc = "load"
    /\ ops' = [ops EXCEPT ![i] =
                  IF tp_client = "None"
                  THEN [@ EXCEPT !.pc = "end", !.out = ClosedError]
                  ELSE [@ EXCEPT !.pc = "build", !.client = TRUE]]
    /\ UNCHANGED <<tp_mode, tp_close, tp_client, tp_closes, active, content>>
    /\ UNCHANGED <<respVars, reqVars, callVars, iterVars>>

\* send lines 175-178: new_reqwest turns the content into a body (for an
\* iterator it spawns the worker), then the pending response is made.
SyncBuild(i, ok) ==
    /\ tp_mode = "sync"
    /\ ops[i].pc = "build"
    /\ ops' = [ops EXCEPT ![i] =
                  IF ok
                  THEN [@ EXCEPT !.pc = "inject", !.touched = TRUE]
                  ELSE [@ EXCEPT !.pc = "end", !.touched = TRUE,
                                 !.out = "error", !.client = FALSE]]
    /\ UNCHANGED <<tp_mode, tp_close, tp_client, tp_closes, active, content>>
    /\ UNCHANGED <<respVars, reqVars, callVars, iterVars>>

\* send lines 179-193: operation.inject, then the engine task is spawned
\* with the cloned client.
SyncInject(i, ok) ==
    /\ tp_mode = "sync"
    /\ ops[i].pc = "inject"
    /\ ops' = [ops EXCEPT ![i] =
                  IF ok
                  THEN [@ EXCEPT !.pc = "dispatched"]
                  ELSE [@ EXCEPT !.pc = "end", !.out = "error",
                                 !.client = FALSE]]
    /\ UNCHANGED <<tp_mode, tp_close, tp_client, tp_closes, active, content>>
    /\ UNCHANGED <<respVars, reqVars, callVars, iterVars>>

\* send lines 194-199: blocking_recv returns what the task sent.
SyncRecv(i, ok) ==
    /\ tp_mode = "sync"
    /\ ops[i].pc = "dispatched"
    /\ ops' = [ops EXCEPT ![i] =
                  [@ EXCEPT !.pc = "end", !.client = FALSE,
                            !.out = IF ok THEN "response" ELSE "error"]]
    /\ UNCHANGED <<tp_mode, tp_close, tp_client, tp_closes, active, content>>
    /\ UNCHANGED <<respVars, reqVars, callVars, iterVars>>

\* do_stream line 159: operation.end on the result of send, whatever it is.
SyncEnd(i) ==
    /\ tp_mode = "sync"
    /\ ops[i].pc = "end"
    /\ ops' = [ops EXCEPT ![i] = [OperationEnd(@) EXCEPT !.pc = "done"]]
    /\ active' = active - 1
    /\ UNCHANGED <<tp_mode, tp_close, tp_client, tp_closes, content>>
    /\ UNCHANGED <<respVars, reqVars, callVars, iterVars>>

\* HttpTransport::do_stream lines 135-140: the client is loaded first; an
\* empty slot raises the closed-transport error at once.
AsyncLoad(i) ==
    /\ tp_mode = "async"
    /\ ops[i].pc = "idle"
    /\ ops' = [ops EXCEPT ![i] =
                  IF tp_client = "None"
                  THEN [@ EXCEPT !.pc = "done", !.out = ClosedError,
                                 !.after = tp_closes]
                  ELSE [@ EXCEPT !.pc = "build", !.client = TRUE,
                                 !.after = tp_closes]]
    /\ UNCHANGED <<tp_mode, tp_close, tp_client, tp_closes, active, content>>
    /\ UNCHANGED <<respVars, reqVars, callVars, iterVars>>

\* do_stream lines 141-142: new_reqwest (the adapter task for an async
\* iterator starts here) and Response::pending.
AsyncBuild(i, ok) ==
    /\ tp_mode = "async"
    /\ ops[i].pc = "build"
    /\ ops' = [ops EXCEPT ![i] =
                  IF ok
                  THEN [@ EXCEPT !.pc = "start", !.touched = TRUE]
                  ELSE [@ EXCEPT !.pc = "done", !.touched = TRUE,
                                 !.out = "error", !.client = FALSE]]
    /\ UNCHANGED <<tp_mode, tp_close, tp_client, tp_closes, active, content>>
    /\ UNCHANGED <<respVars, reqVars, callVars, iterVars>>

\* do_stream line 143: instrumentation.start.
AsyncStart(i) ==
    /\ tp_mode = "async"
    /\ ops[i].pc = "start"
    /\ ops' = [ops EXCEPT ![i] = [OperationStart(@) EXCEPT !.pc = "inject"]]
    /\ active' = active + 1
    /\ UNCHANGED <<tp_mode, tp_close, tp_client, tp_closes, content>>
    /\ UNCHANGED <<respVars, reqVars, callVars, iterVars>>

\* do_stream line 144: operation.inject(py, &mut request_rs)?  -- an error
\* (HeadersSetter::set rejects a header name or value) leaves do_stream.
AsyncInject(i, ok) ==
    /\ tp_mode = "async"
    /\ ops[i].pc = "inject"
    /\ ops' = [ops EXCEPT ![i] =
                  IF ok
                  THEN [@ EXCEPT !.pc = "future"]
                  ELSE [@ EXCEPT !.pc = "done", !.out = "error",
                                 !.client = FALSE]]
    /\ UNCHANGED <<tp_mode, tp_close, tp_client, tp_closes, active, content>>
    /\ UNCHANGED <<respVars, reqVars, callVars, iterVars>>

\* do_stream lines 145-166: future_into_py(..)? needs a running event loop
\* and fails without one; else the task is spawned with the cloned client
\* and EndOperationCallback is added to the future.
AsyncFuture(i, ok) ==
    /\ tp_mode = "async"
    /\ ops[i].pc = "future"
    /\ ops' = [ops EXCEPT ![i] =
                  IF ok
                  THEN [@ EXCEPT !.pc = "dispatched"]
                  ELSE [@ EXCEPT !.pc = "done", !.out = "error",
                                 !.client = FALSE]]
    /\ UNCHANGED <<tp_mode, tp_close, tp_client, tp_closes, active, content>>
    /\ UNCHANGED <<respVars, reqVars, callVars, iterVars>>

\* The future completes: with the response, with an error, or cancelled by
\* the host; its done callbacks are then scheduled.
AsyncResolve(i, o) ==
    /\ tp_mode = "async"
    /\ ops[i].pc = "dispatched"
    /\ ops' = [ops EXCEPT ![i] =
                  [@ EXCEPT !.pc = "callback", !.out = o, !.client = FALSE]]
    /\ UNCHANGED <<tp_mode, tp_close, tp_client, tp_closes, active, content>>
    /\ UNCHANGED <<respVars, reqVars, callVars, iterVars>>

\* EndOperationCallback::__call__, lines 238-241: operation.end.
EndOperationCallback(i) ==
    /\ tp_mode = "async"
    /\ ops[i].pc = "callback"
    /\ ops' = [ops EXCEPT ![i] = [OperationEnd(@) EXCEPT !.pc = "done"]]
    /\ active' = active - 1
    /\ UNCHANGED <<tp_mode, tp_close, tp_client, tp_closes, content>>
    /\ UNCHANGED <<respVars, reqVars, callVars, iterVars>>

ExecuteStep(i) ==
    \/ SyncStart(i)
    \/ SyncLoad(i)
    \/ \E ok \in BOOLEAN : SyncBuild(i, ok) \/ SyncInject(i, ok) \/ SyncRecv(i, ok)
    \/ SyncEnd(i)
    \/ AsyncLoad(i)
    \/ AsyncStart(i)
    \/ \E ok \in BOOLEAN : AsyncBuild(i, ok) \/ AsyncInject(i, ok) \/ AsyncFuture(i, ok)
    \/ \E o \in {"response", "error", "cancelled"} : AsyncResolve(i, o)
    \/ EndOperationCallback(i)

TransportNext ==
    \/ TransportClose
    \/ \E i \in Execs : ExecuteStep(i)

----------------------------------------------------------------------------
\* State of a response of content kind k before anything is done with it.
RespInitOf(k) ==
    /\ body = "None"
    /\ body_lock = "free"
    /\ trailers = HeadersEmpty
    /\ read_locked = FALSE
    /\ read_waiters = <<>>
    /\ cancel = FALSE
    /\ rx_alive = [r \in Readers |-> FALSE]
    /\ rx_changed = [r \in Readers |-> FALSE]
    /\ frames = <<>>
    /\ stream_end = FALSE
    /\ pos = 0
    /\ fill_pc = IF k = "Http" THEN "execute" ELSE "custom"
    /\ pc = [p \in Procs |-> "idle"]
    /\ held = [r \in Readers |-> FALSE]
    /\ res = [r \in Readers |-> Ended]
    /\ ncalls = [r \in Readers |-> 0]
    /\ ncloses = 0
    /\ log = <<>>
    /\ closeCalled = FALSE
    /\ closeReturned = FALSE
    /\ afterClose = [r \in Readers |-> FALSE]
    /\ closedDuring = [r \in Readers |-> FALSE]
    /\ slot = [r \in Readers |-> <<>>]
    /\ synclog = <<>>

RespInit == RespInitOf("Http")

ReaderStep(r) ==
    \/ ChunkSubscribe(r)
    \/ ChunkCheck(r)
    \/ ChunkTake(r)
    \/ ChunkCancelled(r)
    \/ ChunkFrame(r)
    \/ ChunkRestore(r)
    \/ ChunkRelease(r)
    \/ NextReturn(r)

CloserStep(c) ==
    \/ TryLock(c)
    \/ TryBody(c)
    \/ CloseSend(c)
    \/ CloseLock(c)
    \/ CloseClear(c)

TransportStep ==
    \/ ExecuteOk
    \/ \E is_timeout \in BOOLEAN, is_connect \in BOOLEAN :
          ExecuteErr(is_timeout, is_connect)
    \/ FillLock
    \/ FillStore

RespNext ==
    \/ TransportStep
    \/ \E k \in FrameKinds : EngineFrame(k)
    \/ EngineEnd
    \/ \E r \in Readers : ChunkLock(r) \/ ReaderStep(r)
    \/ \E c \in Closers : TrySend(c) \/ CloserStep(c)

\* State of the caller before the call: entry point e, caller position p,
\* interpreter holder g.
CallInit(e, p, g) ==
    /\ entry = e
    /\ call_pc = p
    /\ gil = g
    /\ oneshot = "empty"
    /\ exc = "none"
    /\ err = "none"
    /\ nexec = 0
    /\ wk_thread = "none"
    /\ pullers = {}
    /\ iter_handle = "None"
    /\ iter_closes = 0

\* asyncio: the host awaits the future HttpTransport::do_stream returned.
Init ==
    /\ RespInit
    /\ ReqIdle
    /\ CallInit("HttpTransport", "none", "free")
    /\ TpIdle
Next == RespNext
Spec == Init /\ [][Next]_vars

\* ResponseBody used through its crate-level interface: reads may be issued
\* from the moment pending() has created the body.
BodyNext ==
    \/ RespNext
    \/ \E r \in Readers : ChunkLockPending(r)

SpecBody == Init /\ [][BodyNext]_vars

\* asyncio Response::close on either kind of response: one the transport
\* produced (Content::Http) or one the host built with its own content
\* (Content::Custom, no transport task and no ResponseBody behind it).
InitClose ==
    /\ \E k \in {"Http", "Custom"} : RespInitOf(k) /\ TpIdleOf(k)
    /\ ReqIdle
    /\ CallInit("HttpTransport", "none", "free")

CloseNext ==
    \/ RespNext
    \/ \E c \in Closers : CloseCustom(c)

SpecClose == InitClose /\ [][CloseNext]_vars

\* The request-body adapter on its own, before any response exists.
InitReq ==
    /\ RespInit
    /\ ReqInit
    /\ CallInit("none", "none", "free")
    /\ TpIdle
SpecReq == InitReq /\ [][ReqNext]_vars

----------------------------------------------------------------------------
\* Sync caller: SyncHttpTransport::send and SyncClient::execute.

\* Mutant: the caller blocks on the one-shot without releasing the interpreter.
CallDetach_HoldGil ==
    /\ call_pc = "spawned"
    /\ gil = "caller"
    /\ call_pc' = "blocked"
    /\ UNCHANGED <<entry, gil, oneshot, exc, err, nexec, wk_thread, pullers>>
    /\ UNCHANGED reqVars
    /\ UNCHANGED respVars
    /\ UNCHANGED iterVars
    /\ UNCHANGED tpVars

\* py.detach(|| rx.blocking_recv()): the calling thread releases the
\* interpreter and blocks on the one-shot.
CallDetach ==
    /\ call_pc = "spawned"
    /\ gil = "caller"
    /\ gil' = "free"
    /\ call_pc' = "blocked"
    /\ UNCHANGED <<entry, oneshot, exc, err, nexec, wk_thread, pullers>>
    /\ UNCHANGED reqVars
    /\ UNCHANGED respVars
    /\ UNCHANGED iterVars
    /\ UNCHANGED tpVars

\* The spawned task ends without sending on the one-shot (it panicked or the
\* runtime dropped it): tx is dropped together with the request and its body
\* stream, and blocking_recv returns a RecvError.
ExecuteAbort ==
    /\ fill_pc = "execute"
    /\ call_pc \in {"spawned", "blocked"}
    /\ oneshot = "empty"
    /\ fill_pc' = "failed"
    /\ oneshot' = "dropped"
    /\ rx_closed' = TRUE
    /\ chan' = <<>>
    /\ UNCHANGED <<slot, synclog>>
    /\ UNCHANGED <<adapter, script, iter_pos, wk_pc, wk_item, received, recv_end>>
    /\ UNCHANGED <<entry, call_pc, gil, exc, err, nexec, wk_thread, pullers>>
    /\ UNCHANGED <<body, body_lock, trailers, read_locked, read_waiters, cancel,
                   rx_alive, rx_changed, frames, stream_end, pos, pc, held, res,
                   ncalls, ncloses, log, closeCalled, closeReturned, afterClose,
                   closedDuring>>
    /\ UNCHANGED iterVars
    /\ UNCHANGED tpVars

\* close_request_iter(py, &request_iter, ..): takes the iterator out of the
\* shared handle and closes it; an empty handle is left alone.
CloseRequestIter ==
    /\ iter_handle' = "None"
    /\ iter_closes' = IF iter_handle = "Some" THEN iter_closes + 1
                      ELSE iter_closes

\* The exception the caller gets for what blocking_recv returned: the error
\* sent by the task, or "Error receiving response" for a dropped sender.
RecvError(o) ==
    IF o = "ok" THEN "none"
    ELSE IF o = "dropped" THEN "RuntimeError"
    ELSE o

\* Mutant: send returns the error without closing the request iterator.
CallReturn_NoClose ==
    /\ call_pc = "blocked"
    /\ oneshot # "empty"
    /\ gil = "free"
    /\ gil' = "caller"
    /\ call_pc' = "returned"
    /\ exc' = RecvError(oneshot)
    /\ UNCHANGED iterVars
    /\ UNCHANGED tpVars
    /\ UNCHANGED <<entry, oneshot, err, nexec, wk_thread, pullers>>
    /\ UNCHANGED reqVars
    /\ UNCHANGED respVars

\* blocking_recv returned: the thread re-attaches and returns the response or
\* raises the error; SyncHttpTransport::send closes the request iterator on
\* the error path (inspect_err, line 199), SyncClient::execute does not.
CallReturn ==
    /\ call_pc = "blocked"
    /\ oneshot # "empty"
    /\ gil = "free"
    /\ gil' = "caller"
    /\ call_pc' = "returned"
    /\ exc' = RecvError(oneshot)
    /\ IF oneshot # "ok" /\ entry = "SyncHttpTransport"
       THEN CloseRequestIter
       ELSE UNCHANGED iterVars
    /\ UNCHANGED <<entry, oneshot, err, nexec, wk_thread, pullers>>
    /\ UNCHANGED reqVars
    /\ UNCHANGED respVars
    /\ UNCHANGED tpVars

\* Back in host code the calling thread gives up the interpreter.
HostRelease ==
    /\ call_pc = "returned"
    /\ gil = "caller"
    /\ gil' = "free"
    /\ UNCHANGED <<entry, call_pc, oneshot, exc, err, nexec, wk_thread, pullers>>
    /\ UNCHANGED reqVars
    /\ UNCHANGED respVars
    /\ UNCHANGED iterVars
    /\ UNCHANGED tpVars

\* The host executes the same SyncRequest object again once the previous
\* exchange is over: a new response, a new channel, the same iterator.
ExecuteAgain ==
    /\ call_pc = "returned"
    /\ gil = "free"
    /\ nexec < MaxExec
    /\ wk_pc = "done"
    /\ recv_end \/ rx_closed
    /\ fill_pc \in {"done", "failed"}
    /\ call_pc' = "start"
    /\ gil' = "caller"
    /\ oneshot' = "empty"
    /\ exc' = "none"
    /\ err' = "none"
    /\ iter_handle' = "None"
    /\ iter_closes' = 0
    /\ wk_pc' = "unspawned"
    /\ wk_item' = NoItem
    /\ chan' = <<>>
    /\ rx_closed' = FALSE
    /\ received' = <<>>
    /\ recv_end' = FALSE
    /\ fill_pc' = "execute"
    /\ body' = "None"
    /\ UNCHANGED <<adapter, script, iter_pos>>
    /\ UNCHANGED <<slot, synclog>>
    /\ UNCHANGED <<entry, nexec, wk_thread, pullers>>
    /\ UNCHANGED <<body_lock, trailers, read_locked, read_waiters, cancel,
                   rx_alive, rx_changed, frames, stream_end, pos, pc, held, res,
                   ncalls, ncloses, log, closeCalled, closeReturned, afterClose,
                   closedDuring>>
    /\ UNCHANGED tpVars

CallerStep == CallDetach \/ CallReturn

WorkerStep ==
    \/ WorkerAttach
    \/ WorkerExit
    \/ SyncRequestPull
    \/ SyncRequestSend

InitCall ==
    /\ RespInit
    /\ TpIdle
    /\ \/ ReqIdle /\ CallInit("HttpTransport", "none", "free")
       \/ /\ ReqInit
          /\ adapter = "SyncRequest"
          /\ \E e \in {"SyncHttpTransport", "SyncClient"} :
                CallInit(e, "start", "caller")

CallNext ==
    \/ ContentIntoReqwest
    \/ CallerStep
    \/ HostRelease
    \/ ExecuteAgain
    \/ WorkerStep
    \/ TransportStep
    \/ ExecuteAbort
    \/ EngineRecv
    \/ EngineRecvEnd
    \/ EngineDrop

SpecCall == InitCall /\ [][CallNext]_vars

\* The transport object on its own: execute calls and close calls.
InitTransport ==
    /\ RespInit
    /\ ReqIdle
    /\ CallInit("none", "none", "free")
    /\ TpInit

SpecTransport == InitTransport /\ [][TransportNext]_vars

----------------------------------------------------------------------------
\* Observations used by the properties.

\* Steps a task takes by itself once its call has started: no new call by the
\* host and no frame from the engine.
TaskStep ==
    \/ \E r \in Readers : ReaderStep(r)
    \/ \E c \in Closers : CloserStep(c)

IsData(x) == x >= 1
DataOf(seq) == SelectSeq(seq, IsData)

IsDataFrame(i) == frames[i] = "data"
\* Indices of the data frames pulled from the stream so far, in stream order.
PulledData == SelectSeq([i \in 1..pos |-> i], IsDataFrame)

\* Results that calls have obtained and are about to return.
Returning ==
    IF \E r \in Readers : pc[r] \in {"restore", "release"}
    THEN <<res[CHOOSE r \in Readers : pc[r] \in {"restore", "release"}]>>
    ELSE <<>>

HasEnded(seq) == \E j \in 1..Len(seq) : seq[j] = Ended

\* The stream handle has yielded its last item (end of stream or an error).
StreamOver == pos = Len(frames) /\ (stream_end \/ StreamFailed)

\* The frames so far fit "K data frames, one trailers frame, end".
ShapeDataThenTrailers ==
    /\ \A i \in 1..Len(frames) :
          \/ frames[i] = "data"
          \/ frames[i] = "trailers" /\ i = Len(frames)
    /\ stream_end => TrailersSent

\* Number of data frames among the frames made available so far.
NumData == Len(SelectSeq([i \in 1..Len(frames) |-> i], IsDataFrame))

\* Index of the first pull on which the host iterator does not yield bytes
\* (Len(script) + 1 when every item is bytes).
FirstFail ==
    IF \E i \in 1..Len(script) : script[i] # "bytes"
    THEN CHOOSE i \in 1..Len(script) :
            /\ script[i] # "bytes"
            /\ \A j \in 1..(i - 1) : script[j] = "bytes"
    ELSE Len(script) + 1

AllBytes == FirstFail = Len(script) + 1

\* What the request-body stream is to yield before it ends.
ExpectedStream ==
    [i \in 1..(IF AllBytes THEN Len(script) ELSE FirstFail) |->
        IF i = FirstFail THEN <<"err", i>> ELSE <<"ok", i>>]

IsPrefix(a, b) == Len(a) <= Len(b) /\ \A i \in 1..Len(a) : a[i] = b[i]

----------------------------------------------------------------------------
\* C1: once close() has been called, every chunk() call that starts
\* afterwards returns "ended" (never data, never an error).
C1_ReadAfterCloseEnds ==
    \A r \in Readers :
        (afterClose[r] /\ pc[r] \in {"restore", "release"}) => res[r] = Ended

\* C2: a host sync iterator that yields N byte chunks and is then exhausted
\* reaches the engine as exactly those N chunks, in order, each once, and the
\* stream ends only after all N were received.
C2_ChunksInOrderOnce ==
    (AllBytes /\ adapter \in {"SyncRequest", "IterStream"}) =>
        /\ IsPrefix(received, ExpectedStream)
        /\ recv_end => received = ExpectedStream

C2_Witness ==
    /\ AllBytes
    /\ adapter \in {"SyncRequest", "IterStream"}
    /\ Len(script) >= 2
    /\ recv_end
    /\ received = ExpectedStream

\* C3: with K data frames, then one trailers frame, then end, a single reader
\* gets the K data frames in order and then "ended"; the trailers are absent
\* until the trailers frame has been pulled and populated once "ended" has
\* been returned.
C3_DataThenEndThenTrailers ==
    (ncloses = 0 /\ ncalls["r2"] = 0 /\ ShapeDataThenTrailers) =>
        /\ \A j \in 1..Len(log) :
              IF j <= Len(PulledData) THEN log[j] = j ELSE log[j] = Ended
        /\ HasEnded(log) =>
              /\ Len(PulledData) = NumData
              /\ TrailersSent
              /\ WithStoreOk(trailers)
              /\ trailers = HeadersFill(Len(frames))
        /\ WithStoreOk(trailers) => (TrailersSent /\ pos = Len(frames))
        /\ (TrailersSent /\ pos = Len(frames)) => WithStoreOk(trailers)

C3_Witness ==
    /\ ncloses = 0
    /\ ncalls["r2"] = 0
    /\ frames = <<"data", "trailers">>
    /\ log = <<1, Ended>>
    /\ WithStoreOk(trailers)

\* C4: a close() in progress can always be brought to its return by the
\* tasks alone: whenever a close() has started and not returned, some task
\* has a step that needs neither a new frame from the engine nor a new call.
C4_CloseNeverStalls ==
    \A c \in Closers :
        pc[c] \in {"c_lock", "c_wait", "c_clear"} => ENABLED TaskStep

\* C5: at most one task owns read_lock, the stream handle is in the slot or
\* with exactly one reader, never in two places, a reader that owns the
\* handle owns read_lock, and the data frame a call is about to return is the
\* last frame pulled from the stream (no other call pulled in between).
C5_OneReaderOneHandle ==
    /\ Cardinality({p \in Procs : InCS(p)}) <= 1
    /\ (\E p \in Procs : InCS(p)) => read_locked
    /\ Cardinality({r \in Readers : held[r]}) + (IF body = "Some" THEN 1 ELSE 0) <= 1
    /\ \A r \in Readers : held[r] => pc[r] \in {"select", "restore"}
    /\ \A r \in Readers : pc[r] = "restore" => (held[r] /\ res[r] = pos)

C5_Witness ==
    /\ pc["r1"] = "select"
    /\ held["r1"]
    /\ pc["r2"] = "lock_wait"
    /\ pos = 1

\* C6: when the host iterator fails on its M-th pull, the stream carries the
\* chunks before it (at most M-1), then one error item for that pull, then
\* ends, and the iterator is never pulled an (M+1)-th time.
C6_FailStopsIteration ==
    ~AllBytes =>
        /\ iter_pos <= FirstFail
        /\ IsPrefix(received, ExpectedStream)
        /\ recv_end => received = ExpectedStream

C6_Witness ==
    /\ ~AllBytes
    /\ FirstFail >= 2
    /\ FirstFail < Len(script)
    /\ recv_end
    /\ received = ExpectedStream

\* C7: a chunk() call that holds read_lock and has no result yet when close()
\* is called returns "ended", and gets there without a further frame.
C7_CloseInterruptsRead ==
    \A r \in Readers :
        closedDuring[r] =>
            /\ pc[r] \in ReaderBusy => ENABLED ReaderStep(r)
            /\ pc[r] \in {"restore", "release"} => res[r] = Ended

\* C8: once a close() has returned, the slot is empty and no reader owns the
\* handle, in that state and in every later one.
C8_ClosedSlotEmpty ==
    closeReturned => (body = "None" /\ \A r \in Readers : ~held[r])

C8_Witness ==
    /\ closeReturned
    /\ log # <<>>
    /\ log[1] = 1
    /\ ~stream_end
    /\ \E r \in Readers : pc[r] = "release" /\ afterClose[r]

\* C9: after a close() has returned the body is closed for good: cancel is
\* signalled and the slot is empty, whatever further close() calls do.
C9_ClosedStateStable ==
    closeReturned => (cancel /\ body = "None")

\* C10: with concurrent readers and no close, the data results, in the order
\* the calls held read_lock, are the data frames pulled from the engine, in
\* engine order, each once; "ended" is returned only when the stream is over.
C10_FramesOnceInOrder ==
    ncloses = 0 =>
        /\ DataOf(log \o Returning) = PulledData
        /\ HasEnded(log \o Returning) => StreamOver

C10_Witness ==
    /\ ncloses = 0
    /\ log = <<1, 2>>
    /\ ncalls["r1"] = 1
    /\ ncalls["r2"] = 1
    /\ pc["r1"] = "idle"
    /\ pc["r2"] = "idle"

\* Items the producer has obtained from the host iterator so far, in order.
Pulled ==
    [i \in 1..(IF iter_pos <= Len(script) THEN iter_pos ELSE Len(script)) |->
        PullResult(i)]

\* The item the producer holds and has not handed to the channel yet.
InHand == IF wk_item = NoItem THEN <<>> ELSE <<wk_item>>

C12_SyncCallNoDeadlock ==
    /\ call_pc = "blocked" => gil # "caller"
    /\ (call_pc = "blocked" /\ wk_pc = "attach") => ENABLED WorkerAttach
    /\ (call_pc = "blocked" /\ oneshot = "empty") => ENABLED TransportStep
    /\ (call_pc = "blocked" /\ oneshot # "empty") =>
           (ENABLED CallReturn \/ (gil = "worker" /\ ENABLED WorkerStep))

C12_Witness ==
    /\ call_pc = "blocked"
    /\ gil = "worker"
    /\ wk_pc = "pull"
    /\ iter_pos >= 1
    /\ oneshot # "empty"

\* C14: a transport error that reaches the caller has been classified, in
\* every mode alike: TimeoutError if it is a timeout, else ConnectionError if
\* it is a connect error, else RuntimeError.
C14_ErrorsClassified ==
    (err # "none" /\ exc # "none") => exc = FromReqwest(err[1], err[2])

\* Producers that have called next() on the request's host iterator.
Consumers == {p[1] : p \in pullers}

\* C18: over any sequence of execute calls, the same request object included,
\* at most one worker ever pulls from a given host iterator.
C18_OneConsumer == Cardinality(Consumers) <= 1

\* C19: every next() on a host sync iterator runs on a thread of the blocking
\* pool, never on an engine scheduler thread (the thread that polls the
\* request-body stream is one of those).
C19_PullOnBlockingThread ==
    adapter \in {"SyncRequest", "IterStream"} =>
        \A p \in pullers : p[2] = "blocking"

C19_Witness ==
    /\ adapter = "IterStream"
    /\ iter_pos >= 2
    /\ pullers = {<<1, "blocking">>}
    /\ received # <<>>

\* C13: every read receives exactly one result from its chunk() task, and
\* when only the sync reader reads the body, the results its __next__ calls
\* give the host are, call by call, what __anext__ gives for the same
\* chunk() results: the chunk, the end of the iteration, or the error.
C13_SyncReadsAsAsync ==
    /\ \A r \in Readers :
          /\ Len(slot[r]) <= 1
          /\ pc[r] = "deliver" <=> Len(slot[r]) = 1
    /\ ncalls["r2"] = 0 =>
          /\ Len(synclog) = Len(log) - Len(slot["r1"])
          /\ \A j \in 1..Len(synclog) : synclog[j] = AsyncNextResult(log[j])

C13_Witness ==
    /\ ncalls["r2"] = 0
    /\ frames = <<"data", "error">>
    /\ log = <<1, Failed>>
    /\ synclog = <<<<"chunk", 1>>, <<"raise", 0>>>>

\* C15: populated trailers are never cleared or changed: no step of close(),
\* try_close() or a later chunk() alters trailers once they are stored.
C15_TrailersRetained ==
    [][WithStoreOk(trailers) => trailers' = trailers]_vars

C15_Witness ==
    /\ WithStoreOk(trailers)
    /\ closeCalled
    /\ closeReturned
    /\ ncloses = 2
    /\ \A r \in Readers : pc[r] = "idle"

\* C16: once close() has been called while the trailers are still absent,
\* they stay absent: no later step stores trailers.
C16_TrailersStayAbsent ==
    [][(closeCalled /\ ~WithStoreOk(trailers)) => ~WithStoreOk(trailers')]_vars

TryCloseTrue(c) == pc[c] = "t_body" /\ pc'[c] = "idle"
TryCloseFalse(c) == pc[c] \in {"t_lock", "t_body"} /\ pc'[c] = "c_send"

\* C20: try_close() never waits: each of its steps can be taken at once. It
\* returns true exactly when it got read_lock and the slot lock without
\* waiting, and then the slot is empty; when it returns false the slot, the
\* handle of an in-flight chunk() and the trailers are as they were.
C20_TryCloseNonBlocking ==
    [][\A c \in Closers :
          /\ pc[c] \in {"t_lock", "t_body"} => ENABLED CloserStep(c)
          /\ TryCloseTrue(c) =>
                /\ body' = "None"
                /\ body_lock = "free"
                /\ \A r \in Readers : ~InCS(r) /\ ~held[r]
          /\ TryCloseFalse(c) =>
                /\ body' = body
                /\ held' = held
                /\ trailers' = trailers
                /\ \/ pc[c] = "t_lock" /\ read_locked
                   \/ pc[c] = "t_body" /\ body_lock # "free"
          /\ (pc[c] = "t_lock" /\ ~read_locked) => pc'[c] \in {"t_lock", "t_body"}
          /\ (pc[c] = "t_body" /\ body_lock = "free") => pc'[c] \in {"t_body", "idle"}]_vars

C20_Witness ==
    \E c \in Closers, r \in Readers :
        /\ pc[c] = "c_send"
        /\ pc[r] = "select"
        /\ held[r]
        /\ body = "None"
        /\ pos = 1

\* Closer c executes cancel_tx.send(true) in this step: the first statement of
\* try_close() (line 155) or of close() (line 148).
SendsCancel(c) ==
    \/ pc[c] = "idle" /\ pc'[c] = "t_lock"
    \/ pc[c] = "c_send" /\ pc'[c] = "c_lock"

\* C21: every close() and try_close() leaves the cancel flag true, whether or
\* not a chunk() is subscribed at that moment, and a true flag stays true.
C21_CloseSetsCancel ==
    [][/\ (\E c \in Closers : SendsCancel(c)) => cancel'
       /\ cancel => cancel']_vars

\* C22: a chunk() that finds the cancel flag set once it has read_lock returns
\* "ended", and from that check to its return the slot, the trailers, the
\* stream position and the ownership of the handle stay as they were: it
\* takes no handle, drops none and pulls no frame.
C22_CancelledReadTouchesNothing ==
    [][\A r \in Readers :
          /\ (pc[r] = "check" /\ cancel /\ pc'[r] # "check") =>
                /\ pc'[r] = "release"
                /\ res'[r] = Ended
          /\ (pc[r] = "release" /\ pc'[r] = "release") => res'[r] = res[r]
          /\ (pc[r] = "release" /\ pc'[r] # "release") =>
                log' = Append(log, res[r])
          /\ ((pc[r] = "check" /\ cancel) \/ pc[r] = "release") =>
                /\ body' = body
                /\ trailers' = trailers
                /\ pos' = pos
                /\ held' = held]_vars

C22_Witness ==
    \E r \in Readers :
        /\ pc[r] = "release"
        /\ res[r] = Ended
        /\ cancel
        /\ body = "Some"
        /\ pos >= 1
        /\ ~stream_end

\* C23: with a capacity-1 channel at most one chunk is in flight: the
\* producer never holds a chunk it has pulled from the host iterator while an
\* earlier item is still buffered in the channel.
C23_SingleChunkInFlight ==
    ChanCapOf = ChanCap => ~(chan # <<>> /\ wk_item[1] = "ok")

\* The worker's send attempt fails in this step: the receiver is gone.
SendFails == wk_pc = "send" /\ rx_closed /\ wk_pc' # "send"

\* The worker has left its loop (and is re-attaching to return) or has ended.
WorkerStopped == wk_pc \in {"exit", "done"}

\* C24: once the engine has dropped the receiver the sync-iterator worker's
\* next send fails and the worker stops silently: nothing is enqueued or
\* received, no error is raised, the iterator is not pulled again and the
\* worker can always run to its end. On exhaustion the worker stops as well,
\* and the stream then yields its end.
C24_WorkerStopsSilently ==
    [][(adapter \in {"SyncRequest", "IterStream"}) =>
          /\ SendFails =>
                /\ wk_pc' = "exit"
                /\ chan' = chan
                /\ received' = received
                /\ recv_end' = recv_end
                /\ iter_pos' = iter_pos
                /\ exc' = exc
          /\ WorkerStopped =>
                /\ WorkerStopped'
                /\ iter_pos' = iter_pos
                /\ pullers' = pullers
          /\ wk_pc = "exit" => ENABLED WorkerExit
          /\ (wk_pc = "pull" /\ iter_pos >= Len(script) /\ iter_pos' # iter_pos) =>
                /\ WorkerStopped'
                /\ chan' = chan
          /\ (wk_pc = "done" /\ ~rx_closed /\ ~recv_end /\ chan = <<>>) =>
                ENABLED EngineRecvEnd
          /\ recv_end' => WorkerStopped']_vars

C24_Witness ==
    /\ adapter = "SyncRequest"
    /\ rx_closed
    /\ wk_pc = "done"
    /\ received = <<<<"ok", 1>>>>
    /\ iter_pos = 2
    /\ Len(script) = 3
    /\ script[3] = "bytes"

\* C25: the sync-iterator worker holds the interpreter only while it pulls
\* and converts an item; while it is sending, and so whenever it is blocked on
\* a full channel, the interpreter is not the worker's, and a calling thread
\* whose result is ready can take it.
C25_SendWithoutInterpreter ==
    /\ gil = "worker" => wk_pc = "pull"
    /\ wk_pc = "send" => gil # "worker"
    /\ (wk_pc = "send" /\ Len(chan) = ChanCapOf /\ ~rx_closed
          /\ call_pc = "blocked" /\ oneshot # "empty") => ENABLED CallReturn

C25_Witness ==
    /\ wk_pc = "send"
    /\ Len(chan) = ChanCap
    /\ ~rx_closed
    /\ wk_item = <<"ok", 2>>
    /\ call_pc = "returned"
    /\ gil = "caller"

\* Frames that chunk() answers with a result: data and errors.
IsVisibleFrame(i) == frames[i] \in {"data", "error"}

\* Indices of the pulled frames that are not skipped, in stream order.
Visible == SelectSeq([i \in 1..pos |-> i], IsVisibleFrame)

\* The result chunk() gives for frame i.
ResultOf(i) == IF frames[i] = "data" THEN i ELSE Failed

\* Without a close, the results so far are those of the visible frames, in
\* order, followed by "ended" only.
ResultsSkipOthers ==
    LET out == log \o Returning
    IN \A j \in 1..Len(out) :
          IF j <= Len(Visible) THEN out[j] = ResultOf(Visible[j])
          ELSE out[j] = Ended

\* C26: a frame that is neither data nor trailers is skipped: pulling it gives
\* no result and no error, leaves the trailers, the slot and the handle as
\* they were and keeps chunk() in its frame loop; the values returned are
\* those of the stream without such frames.
C26_OtherFramesSkipped ==
    [][/\ (pos' = pos + 1 /\ frames[pos + 1] = "other") =>
             /\ pc' = pc
             /\ res' = res
             /\ held' = held
             /\ trailers' = trailers
             /\ body' = body
             /\ log' = log
             /\ \E r \in Readers : pc[r] = "select" /\ held[r]
       /\ (ncloses' = 0) => ResultsSkipOthers']_vars

C26_Witness ==
    /\ ncloses = 0
    /\ frames = <<"other", "data">>
    /\ log = <<2>>
    /\ body = "Some"

\* C27: in SyncHttpTransport::send the request's iterator handle stays with
\* the call while the request is in flight; a send that fails (transport
\* error, or one-shot dropped with no result) has closed the iterator exactly
\* once when the error reaches the caller, and a send that succeeds has not
\* closed it and leaves the handle in place.
C27_FailedSendClosesIter ==
    entry = "SyncHttpTransport" =>
        /\ call_pc \in {"spawned", "blocked"} =>
              (iter_handle = "Some" /\ iter_closes = 0)
        /\ (call_pc = "returned" /\ exc # "none") =>
              (iter_closes = 1 /\ iter_handle = "None")
        /\ (call_pc = "returned" /\ exc = "none") =>
              (iter_closes = 0 /\ iter_handle = "Some")

C27_Witness ==
    /\ entry = "SyncHttpTransport"
    /\ call_pc = "returned"
    /\ oneshot = "dropped"
    /\ exc = "RuntimeError"
    /\ iter_closes = 1
    /\ iter_pos >= 1

\* send(), or the awaitable it returned, yields true / false in this step:
\* on true the forward task goes on to its next pull, on false it stops.
SendYieldsTrue == wk_pc \in {"send", "reserve"} /\ wk_pc' = "pull"
SendYieldsFalse == wk_pc \in {"send", "reserve"} /\ wk_pc' = "done"

\* Item x is in the channel or has been received.
Enqueued(x) ==
    \/ \E j \in 1..Len(chan) : chan[j] = x
    \/ \E j \in 1..Len(received) : received[j] = x

\* C28: for the async-iterator Sender, an item whose send yields true has
\* been put into the queue once, by that step; an item whose send yields
\* false (receiver closed) is never put into the queue; an item whose send is
\* still pending is not in the queue; and with each send awaited before the
\* next, what the engine receives is the items in send order, all of them
\* when the stream ends.
C28_SenderEnqueuesOnce ==
    [][(adapter = "Sender") =>
          /\ SendYieldsTrue =>
                /\ ~rx_closed
                /\ ~Enqueued(wk_item)
                /\ chan' = Append(chan, wk_item)
          /\ SendYieldsFalse =>
                /\ rx_closed
                /\ ~Enqueued(wk_item)
                /\ chan' = chan
                /\ received' = received
                /\ wk_item' = NoItem
          /\ wk_item' # NoItem => ~Enqueued(wk_item)'
          /\ IsPrefix(received' \o chan', Pulled')
          /\ recv_end' => received' = Pulled']_vars

C28_Witness ==
    /\ adapter = "Sender"
    /\ rx_closed
    /\ wk_pc = "done"
    /\ wk_item = NoItem
    /\ iter_pos = SenderCap + 1
    /\ iter_pos <= Len(script)
    /\ Len(received) >= 2

\* C29: on a Filled body, whenever nobody owns read_lock and the stream has
\* neither ended nor failed and the body has been neither cancelled nor
\* closed, the slot holds the stream handle; and a chunk() about to return a
\* data frame has already put the handle back, while it still owns read_lock.
C29_SlotHoldsHandle ==
    /\ (/\ Delivered
        /\ ~read_locked
        /\ ~stream_end
        /\ ~StreamFailed
        /\ ~cancel
        /\ ~closeReturned) => body = "Some"
    /\ \A r \in Readers :
          (pc[r] = "release" /\ IsData(res[r])) =>
              /\ body = "Some"
              /\ ~held[r]
              /\ read_locked

C29_Witness ==
    /\ Delivered
    /\ ~read_locked
    /\ body = "Some"
    /\ log = <<1, 2>>
    /\ ~stream_end
    /\ ~StreamFailed
    /\ ~cancel
    /\ ~closeReturned

\* The engine stream has finished and the chunk() that was awaiting its next
\* frame has its result: no reader owns the handle any more.
StreamDone ==
    /\ stream_end
    /\ pos = Len(frames)
    /\ \A r \in Readers : ~held[r]

\* C30: end of stream is sticky: once a chunk() has got "ended" from the
\* finished engine stream, the handle is gone (the slot stays empty, no reader
\* holds it), and that call and every later one return "ended", never data
\* and never an error.
C30_EndIsSticky ==
    [][StreamDone =>
          /\ StreamDone'
          /\ body = "None"
          /\ body' = "None"
          /\ \A r \in Readers :
                pc'[r] \in {"restore", "release"} => res'[r] = Ended
          /\ log' # log => log' = Append(log, Ended)]_vars

C30_Witness ==
    /\ StreamDone
    /\ ncloses = 0
    /\ frames = <<"trailers">>
    /\ log = <<Ended, Ended>>

\* The failing frame has been pulled from the engine stream.
ErrorPulled == StreamFailed /\ pos = Len(frames)

\* Positions at which the results so far (returned, or about to be) are an error.
FailedAt == LET out == log \o Returning
            IN {j \in 1..Len(out) : out[j] = Failed}

\* C31: when pulling a frame fails, that error is returned exactly once: the
\* handle is dropped (slot empty, no reader owns it), the failing call can
\* release read_lock, and every later chunk() runs to its return and gives
\* "ended"; without a failed frame no call returns an error.
C31_ErrorReturnedOnce ==
    /\ ~ErrorPulled => FailedAt = {}
    /\ ErrorPulled =>
          /\ body = "None"
          /\ \A r \in Readers : ~held[r]
          /\ Cardinality(FailedAt) = 1
          /\ \A j \in FailedAt :
                \A k \in (j + 1)..Len(log \o Returning) :
                    (log \o Returning)[k] = Ended
          /\ \A r \in Readers :
                /\ pc[r] \in ReaderBusy => ENABLED ReaderStep(r)
                /\ pc[r] = "release" => ENABLED ChunkRelease(r)

C31_Witness ==
    /\ ErrorPulled
    /\ ncloses = 0
    /\ frames = <<"error">>
    /\ log = <<Failed, Ended>>
    /\ read_waiters = <<>>
    /\ ~read_locked

\* The cancel signal interrupts reader r in this step: r leaves the select!
\* through cancel_rx.changed(), not through a frame or the end of the stream.
Interrupted(r) ==
    /\ pc[r] = "select"
    /\ rx_changed[r]
    /\ pc'[r] = "release"
    /\ pos' = pos
    /\ ~(stream_end /\ pos = Len(frames))

\* The stream handle exists nowhere any more: the engine stream is released.
HandleGone == body = "None" /\ \A r \in Readers : ~held[r]

\* C32: a chunk() interrupted by the cancel signal after it took the handle
\* drops the handle, it does not put it back: from that step on the handle
\* is gone for good, and this happens while the reader still owns read_lock,
\* so before any close() has acquired it.
C32_InterruptedReadDropsHandle ==
    [][/\ \A r \in Readers :
             Interrupted(r) =>
                 /\ held[r]
                 /\ HandleGone'
                 /\ res'[r] = Ended
                 /\ read_locked'
                 /\ \A c \in Closers : pc'[c] \notin CloserCS
       /\ (Delivered /\ HandleGone) => HandleGone']_vars

C32_Witness ==
    \E r \in Readers, c \in Closers :
        /\ pc[r] = "release"
        /\ res[r] = Ended
        /\ TotalCalls = 1
        /\ pc[c] = "c_wait"
        /\ ~closeReturned
        /\ HandleGone
        /\ ~stream_end
        /\ ~StreamFailed
        /\ pos = 1

\* The host holds the response: the async future has resolved with it, or the
\* sync one-shot carries it, or the sync call has returned it.
HostHasResponse ==
    \/ call_pc = "none" /\ Delivered
    \/ oneshot = "ok"
    \/ call_pc = "returned" /\ exc = "none"

\* C33: the host gets a response only after fill has stored the engine body
\* handle (no reader exists on the call path, so the slot still holds it),
\* with fill's guard on the slot released; after a transport error the host
\* gets an exception and no response.
C33_ResponseAfterFill ==
    /\ HostHasResponse =>
          /\ fill_pc = "done"
          /\ body = "Some"
          /\ body_lock = "free"
    /\ fill_pc = "failed" =>
          /\ ~HostHasResponse
          /\ call_pc = "none" => exc # "none"
          /\ call_pc = "returned" => exc # "none"

C33_Witness ==
    /\ entry = "SyncHttpTransport"
    /\ call_pc = "returned"
    /\ exc = "none"
    /\ oneshot = "ok"
    /\ body = "Some"

\* Execute call i was made after a close call on the transport.
LaterExecute(i) == ops[i].pc # "idle" /\ ops[i].after > 0

\* C34: on a constructed transport an execute made after a close fails with
\* the closed-transport error before the request body is touched (no
\* new_reqwest, so no worker, no adapter task, no pull) and without a client;
\* an execute dispatched before the close keeps its client and can still
\* complete with a response.
C34_ClosedTransportRejects ==
    \A i \in Execs :
        /\ (tp_close /\ LaterExecute(i)) =>
              /\ ops[i].pc \in {"load", "end", "done"}
              /\ ~ops[i].touched
              /\ ~ops[i].client
              /\ ops[i].out \in {"none", ClosedError}
              /\ ops[i].pc \in {"end", "done"} => ops[i].out = ClosedError
        /\ ops[i].pc = "dispatched" =>
              /\ ops[i].client
              /\ ENABLED (SyncRecv(i, TRUE) \/ AsyncResolve(i, "response"))

C34_Witness ==
    /\ tp_close
    /\ tp_client = "None"
    /\ ops[1].pc = "dispatched"
    /\ ops[1].after = 0
    /\ ops[1].client
    /\ LaterExecute(2)
    /\ ops[2].pc = "done"
    /\ ops[2].out = ClosedError
    /\ ~ops[2].touched

\* C35: on the shared default transport (close: false) a close call, from
\* any holder and any number of times, leaves the client in place, and no
\* execute ends with the closed-transport error.
C35_DefaultTransportStaysOpen ==
    ~tp_close =>
        /\ tp_client = "Some"
        /\ \A i \in Execs : ops[i].out # ClosedError

C35_Witness ==
    /\ ~tp_close
    /\ tp_closes = MaxTpCloses
    /\ \E i \in Execs :
          /\ ops[i].after = MaxTpCloses
          /\ ops[i].pc = "done"
          /\ ops[i].out = "response"

\* Operations started and not ended yet.
OpenOperations == {i \in Execs : ops[i].started > ops[i].ended}

\* No execute call is in progress.
NoRequestInFlight == \A i \in Execs : ops[i].pc \in {"idle", "done"}

\* C39: an operation that was started is ended exactly once on every path of
\* execute, so the active-requests counter counts the operations still open
\* and is back at its initial value when no request is in flight.
C39_OperationsEndedOnce ==
    /\ \A i \in Execs :
          /\ ops[i].started <= 1
          /\ ops[i].ended <= ops[i].started
          /\ ops[i].pc = "done" => ops[i].ended = ops[i].started
    /\ active = Cardinality(OpenOperations)
    /\ NoRequestInFlight => active = 0

\* Response.close() of closer c resolves in this step: at once, because
\* try_close() returned true, or when the scheduled close() has finished.
CloseResolves(c) ==
    \/ TryCloseTrue(c)
    \/ pc[c] = "c_clear" /\ pc'[c] = "idle"

C37_LazyStartOnce ==
    adapter = "IterStream" =>
        /\ wk_pc = "unspawned" =>
              /\ iter_pos = 0
              /\ pullers = {}
              /\ nexec = 0
              /\ chan = <<>>
              /\ received = <<>>
        /\ nexec <= 1
        /\ pullers \subseteq {<<1, SpawnBlocking>>}
        /\ recv_end =>
              /\ wk_pc = "done"
              /\ chan = <<>>
              /\ ~ENABLED (IterStreamStart \/ WorkerAttach \/ IterStreamPull
                           \/ IterStreamSend \/ EngineRecv)

C37_Witness ==
    /\ adapter = "IterStream"
    /\ recv_end
    /\ nexec = 1
    /\ Len(received) = MaxItems
    /\ iter_pos = MaxItems + 1

\* The first n chunks of an async body, as the engine-facing stream carries them.
FirstChunks(n) == [i \in 1..n |-> <<"ok", i>>]

\* Items the forward task has pulled from the async iterator.
ItemsPulled == IF iter_pos > Len(script) THEN Len(script) ELSE iter_pos

\* The Sender has been closed and no send is pending any more.
SenderClosed == wk_pc = "done"

\* C38: the items accepted by the queue reach the engine in order; while the
\* Sender is open or a send is still pending the stream does not end; once
\* the Sender is closed and no send is pending the stream goes on yielding
\* what is buffered and ends only with the buffer empty, having delivered
\* every accepted item.
C38_ClosedSenderDrains ==
    (adapter = "Sender" /\ ~rx_closed) =>
        /\ received \o chan = FirstChunks(Len(received) + Len(chan))
        /\ ~SenderClosed => ~recv_end /\ ~ENABLED EngineRecvEnd
        /\ SenderClosed =>
              /\ Len(received) + Len(chan) = ItemsPulled
              /\ chan # <<>> => ENABLED EngineRecv /\ ~ENABLED EngineRecvEnd
              /\ (chan = <<>> /\ ~recv_end) => ENABLED EngineRecvEnd
        /\ recv_end =>
              /\ chan = <<>>
              /\ received = FirstChunks(ItemsPulled)

C38_Witness ==
    /\ adapter = "Sender"
    /\ recv_end
    /\ Len(script) = MaxSent
    /\ iter_pos = MaxSent
    /\ received = FirstChunks(MaxSent)
====
